---- MODULE Spec2Model ----
(***************************************************************************)
(* Reference rewriting of upgrade-util (src/util/records.py):              *)
(* replace_record_references_batch(cr, id_mapping, model_src, model_dst,   *)
(* replace_xmlid, ignores) run against a small database whose schema has   *)
(* one referring table of each kind the function distinguishes:            *)
(*   sale_order.partner_id        plain table (has id), FK -> res_partner  *)
(*   partner_category_rel         join table (no id), FK -> res_partner    *)
(*   ir_attachment, ir_model_data polymorphic (res_model, res_id) sites    *)
(*   mail_followers               polymorphic site with a unique index on  *)
(*                                (res_model, res_id, partner_id)          *)
(*   ir_default                   default values of the FK fields          *)
(*   ir_property.value_reference  a reference field "model,id"             *)
(* SQL statements are modelled with PostgreSQL's semantics: every row of   *)
(* one statement is evaluated against the snapshot taken when the          *)
(* statement starts, and a unique index rejects the statement that would   *)
(* leave two equal keys.                                                   *)
(***************************************************************************)
EXTENDS Integers, Sequences, FiniteSets, TLC

\* ---------------------------------------------------------------- bounds
\* record ids of the entities are 1..MaxId
MaxId == 3
\* rows of a table of the database
NRows == 2

Ids == 1 .. MaxId
\* the keys (old ids) of an id_mapping; its values (new ids) are any of Ids
OldIds == {1, 2}
RowIds == 1 .. NRows
\* an SQL NULL in an integer column
NoId == 0
\* values of the second column of the join table (res_partner_category ids)
CategoryIds == {10, 20}
\* values of mail_followers.partner_id, the extra column of the unique index
FollowerIds == {7, 8}

ModelSrc == "res.partner"
ModelOther == "res.users"
Models == {ModelSrc, ModelOther}

VARIABLES
    db,        \* the tables' rows
    schema,    \* catalog facts the function looks up at run time
    db0,       \* the tables' rows when the last call started
    args,      \* the arguments of the last call
    pc,        \* "idle" | "done" (returned) | "raised"
    err,       \* the exception a raised call ended with, and where
    scratch,   \* whether table _upgrade_rrr exists
    fk_writes, \* per sale_order row: UPDATEs that wrote it in the last call
    report,    \* the entries added to the migration report
    queue,     \* the exploded statements submitted to the workers and not yet run
    stack,     \* the frames of the python calls that have not returned, innermost first
    done_refs, \* the set done_refs the calls of one update_record_from_xml share
    visits     \* how many times the last call entered remove_records with ids

vars == <<db, schema, db0, args, pc, err, scratch, fk_writes, report, queue, stack, done_refs, visits>>

\* ---------------------------------------------------------------- catalog
\* helpers.table_of_model / model_of_table
table_of_model(model) ==
    CASE model = "res.partner" -> "res_partner"
      [] model = "res.users" -> "res_users"
      [] model = "sale.order" -> "sale_order"
      [] model = "ir.property" -> "ir_property"
      [] model = "ir.ui.menu" -> "ir_ui_menu"
      [] model = "ir.ui.view" -> "ir_ui_view"
      [] model = "product.template" -> "product_template"
      [] model = "product.product" -> "product_product"
      [] model = "product.pack" -> "product_pack"
      [] model = "ir.translation" -> "ir_translation"
      [] model = "crm.tag" -> "crm_tag"
      [] model = "crm.lead" -> "crm_lead"
      [] model = "res.groups" -> "res_groups"

model_of_table(table) ==
    CASE table = "res_partner" -> "res.partner"
      [] table = "res_users" -> "res.users"
      [] table = "sale_order" -> "sale.order"
      [] table = "ir_property" -> "ir.property"
      [] table = "crm_tag" -> "crm.tag"
      [] table = "crm_lead" -> "crm.lead"
      [] table = "res_groups" -> "res.groups"
      [] table = "crm_tag_rel" -> "crm.tag.rel"
      [] table = "x_tag_rel" -> "x.tag.rel"

\* pg.get_fk(cr, table): (referring table, column, on-update, on-delete) of the
\* foreign keys that target `table`
get_fk(sch, table) ==
    IF table = "res_partner"
    THEN << <<"sale_order", "partner_id", "a", sch.on_delete>>,
            <<"partner_category_rel", "partner_id", "a", "c">> >>
         \o (IF sch.self_rel
             THEN << <<"partner_partner_rel", "src_id", "a", "c">>,
                     <<"partner_partner_rel", "dst_id", "a", "c">> >>
             ELSE << >>)
    ELSE IF table = "crm_tag"
    THEN (IF sch.rel # "" THEN << <<sch.rel, "tag_id", "a", "c">> >> ELSE << >>)
         \o (IF sch.m2o THEN << <<"crm_lead", "tag_id", "a", "n">> >> ELSE << >>)
    ELSE IF table = "res_groups" THEN sch.group_fks
    ELSE << >>

\* pg.column_exists(cr, table, "id")
has_id_column(table) ==
    table \notin {"partner_category_rel", "partner_partner_rel", "rule_group_rel",
                  "res_groups_users_rel"}

\* pg.get_columns(cr, table, ignore=(fk,))
get_columns(table, fk) ==
    CASE table = "partner_category_rel" -> <<"category_id">>
      [] table = "partner_partner_rel" -> IF fk = "src_id" THEN <<"dst_id">> ELSE <<"src_id">>
      [] table = "crm_tag_rel" -> <<"lead_id">>
      [] table = "x_tag_rel" -> <<"x">>
      [] OTHER -> <<"id", "name">>

\* pg.target_of(cr, table, col2): (table, column) col2 references
target_of(table, col2) ==
    CASE table = "partner_category_rel" /\ col2 = "category_id" -> <<"res_partner_category", "id">>
      [] table = "partner_partner_rel" /\ col2 \in {"src_id", "dst_id"} -> <<"res_partner", "id">>
      [] OTHER -> << >>

\* indirect_references(cr, bound_only=True): the (table, res_model, res_id) sites
indirect_references ==
    << [table |-> "ir_attachment"], [table |-> "ir_model_data"], [table |-> "mail_followers"] >>

\* pg._get_unique_indexes_with(cr, table, res_id, res_model): the columns of each
\* unique index that holds both columns
_get_unique_indexes_with(table) ==
    IF table = "mail_followers"
    THEN << {"res_model", "res_id", "partner_id"} >>
    ELSE << >>

\* SELECT model, name FROM ir_model_fields WHERE ttype = 'reference'
reference_fields == << <<"ir.property", "value_reference">> >>

\* ---------------------------------------------------------------- values
\* r.old::varchar
varchar(n) == ToString(n)

\* concat(model, ',', id)
concat_ref(model, id) == model \o "," \o ToString(id)

JoinPairs == Ids \X CategoryIds
\* rows (src_id, dst_id) of the join table whose two columns reference res_partner
SelfPairs == Ids \X Ids

RECURSIVE SumOver(_, _)
SumOver(f, S) ==
    IF S = {} THEN 0
    ELSE LET x == CHOOSE y \in S : TRUE IN f[x] + SumOver(f, S \ {x})

\* ---------------------------------------------------------------- arguments
\* id_mapping: a dict old id -> new id; ints is the outcome of
\* all(isinstance(v, int) and isinstance(k, int))
IdMappings == UNION {[K -> Ids] : K \in SUBSET OldIds}

IgnoreChoices ==
    { [ignores |-> {}, replace_xmlid |-> TRUE],
      [ignores |-> {"sale_order", "mail_followers"}, replace_xmlid |-> FALSE],
      [ignores |-> {"partner_category_rel", "partner_partner_rel", "ir_attachment", "ir_property"},
       replace_xmlid |-> TRUE] }

Calls ==
    { [id_mapping |-> m, ints |-> TRUE, model_src |-> ModelSrc, model_dst |-> d,
       ignores |-> g.ignores, replace_xmlid |-> g.replace_xmlid] :
         m \in IdMappings, d \in Models, g \in IgnoreChoices }
    \cup
    { [id_mapping |-> (1 :> 2), ints |-> FALSE, model_src |-> ModelSrc, model_dst |-> ModelSrc,
       ignores |-> {}, replace_xmlid |-> TRUE] }

NoCall ==
    [id_mapping |-> << >>, ints |-> TRUE, model_src |-> ModelSrc, model_dst |-> ModelSrc,
     ignores |-> {}, replace_xmlid |-> TRUE]

\* ---------------------------------------------------------------- statements
NoError == [type |-> "", at |-> ""]

\* id_update = any(k != v for k, v in id_mapping.items())
id_update(id_mapping) == \E k \in DOMAIN id_mapping : k # id_mapping[k]

\* a faulty variant of ignores_of: replace_xmlid=False does not protect ir_model_data
ignores_of_as_given(a) == a.ignores

\* ignores = [...]; if not replace_xmlid: ignores.append("ir_model_data")
ignores_of(a) ==
    IF a.replace_xmlid THEN a.ignores ELSE a.ignores \cup {"ir_model_data"}

\* a faulty variant of fk_new_value: one UPDATE per mapping entry, run in turn, so that a
\* row moved onto a new id that is itself a key is moved again
fk_new_value_chained(m, v) ==
    IF v \in DOMAIN m
    THEN IF m[v] \in DOMAIN m THEN m[m[v]] ELSE m[v]
    ELSE v

\* UPDATE {table} t SET {fk} = r.new FROM _upgrade_rrr r WHERE r.old = t.{fk}:
\* the value of the column after the statement (old is the primary key of
\* _upgrade_rrr, so a row joins at most one mapping row and is written once)
fk_new_value(m, v) == IF v \in DOMAIN m THEN m[v] ELSE v

\* a faulty variant of poly_new_row: the id is remapped, the entity column is forgotten
poly_new_row_keeps_model(a, row) ==
    IF row.res_model = a.model_src /\ row.res_id \in DOMAIN a.id_mapping
    THEN [row EXCEPT !.res_id = a.id_mapping[row.res_id]]
    ELSE row

\* UPDATE "{ir.table}" t SET res_model = model_dst [, res_id = _upgrade_rrr.new]
\*   FROM _upgrade_rrr WHERE res_model = model_src AND _upgrade_rrr.old = res_id
poly_matches(a, row) == row.res_model = a.model_src /\ row.res_id \in DOMAIN a.id_mapping

poly_new_row(a, row) ==
    IF poly_matches(a, row)
    THEN [row EXCEPT !.res_model = a.model_dst,
                     !.res_id = IF id_update(a.id_mapping) THEN a.id_mapping[row.res_id] ELSE @]
    ELSE row

\* a table-wide UPDATE of a table with an id column: which rows it matches and
\* what they hold afterwards
stmt_matches(kind, a, row) ==
    IF kind = "fk" THEN row \in DOMAIN a.id_mapping ELSE poly_matches(a, row)

stmt_new_row(kind, a, row) ==
    IF kind = "fk" THEN fk_new_value(a.id_mapping, row) ELSE poly_new_row(a, row)

\* ---------------------------------------------------------------- batch executor
\* number of id ranges a table-wide statement is split into
WorkerCount == 2

SetMin(S) == CHOOSE x \in S : \A y \in S : x <= y
SetMax(S) == CHOOSE x \in S : \A y \in S : y <= x

\* a faulty variant of id_ranges: each range ends on the first id of the next
id_ranges_overlapping(lo, hi, n) ==
    LET size == (hi - lo + 1) \div n
    IN  IF size = 0 THEN << <<lo, hi>> >>
        ELSE [w \in 1 .. n |-> <<lo + (w - 1) * size, IF w = n THEN hi ELSE lo + w * size>>]

\* [lo, hi] split into n contiguous ranges, the last one absorbing the
\* remainder; one range when there are fewer ids than workers
id_ranges(lo, hi, n) ==
    LET size == (hi - lo + 1) \div n
    IN  IF size = 0 THEN << <<lo, hi>> >>
        ELSE [w \in 1 .. n |-> <<lo + (w - 1) * size, IF w = n THEN hi ELSE lo + w * size - 1>>]

\* pg.explode_query_range(cr, query, table, alias): the id ranges <<lo, hi>> of the
\* statements the query is split into: WorkerCount contiguous ranges over
\* [min(id), max(id)], the last one absorbing the remainder; one statement over
\* the whole table when it has fewer rows than workers
explode_query_range(ids) ==
    IF ids = {} THEN << <<1, 0>> >>
    ELSE id_ranges(SetMin(ids), SetMax(ids), WorkerCount)

InRange(i, r) == r[1] <= i /\ i <= r[2]

\* one statement of the exploded query: the UPDATE with "t.id BETWEEN lo AND hi"
run_range(kind, a, rows, r) ==
    [i \in DOMAIN rows |-> IF InRange(i, r) THEN stmt_new_row(kind, a, rows[i]) ELSE rows[i]]

written_in_range(kind, a, rows, r) ==
    {i \in DOMAIN rows : InRange(i, r) /\ stmt_matches(kind, a, rows[i])}

\* pg.parallel_execute(cr, queries): every statement runs once; the statements
\* touch disjoint rows, so their order does not matter and they are run in turn
RECURSIVE parallel_execute(_, _, _, _, _)
parallel_execute(kind, a, rows, writes, ranges) ==
    IF ranges = << >> THEN [rows |-> rows, writes |-> writes]
    ELSE LET r == Head(ranges)
             w == written_in_range(kind, a, rows, r)
         IN  parallel_execute(kind, a, run_range(kind, a, rows, r),
                              [i \in DOMAIN writes |-> writes[i] + IF i \in w THEN 1 ELSE 0],
                              Tail(ranges))

\* ---------------------------------------------------------------- join tables
\* a join table is a bag of pairs <<fk value, col2 value>>: pair |-> number of rows

\* the UPDATE of the join-table query: row t moves to r.new unless
\* EXISTS(SELECT 1 FROM {table} e WHERE e.{col2} = t.{col2} AND e.{fk} = r.new),
\* evaluated on the rows as they were when the statement started
m2m_moves(m, rel, p) ==
    /\ p[1] \in DOMAIN m
    /\ rel[p] > 0
    /\ rel[<<m[p[1]], p[2]>>] = 0

m2m_update(m, rel) ==
    [p \in DOMAIN rel |->
        (IF m2m_moves(m, rel, p) THEN 0 ELSE rel[p])
        + SumOver(rel, {q \in DOMAIN rel : /\ q[2] = p[2]
                                           /\ m2m_moves(m, rel, q)
                                           /\ m[q[1]] = p[1]})]

\* a faulty variant of m2m_delete_old: the rows the UPDATE skipped are not deleted
m2m_delete_none(m, rel) == rel

\* DELETE FROM {table} t USING _upgrade_rrr r WHERE t.{fk} = r.old
m2m_delete_old(m, rel) ==
    [p \in DOMAIN rel |-> IF p[1] \in DOMAIN m THEN 0 ELSE rel[p]]

\* a faulty variant of m2m_delete_selfloops: the self-loops the UPDATE made are kept
m2m_keep_selfloops(m, rel) == rel

\* DELETE FROM {table} t USING _upgrade_rrr r WHERE t.{fk} = r.new AND t.{fk} = t.{col2}
m2m_delete_selfloops(m, rel) ==
    [p \in DOMAIN rel |->
        IF (\E k \in DOMAIN m : m[k] = p[1]) /\ p[1] = p[2] THEN 0 ELSE rel[p]]

HasDuplicate(rel) == \E p \in DOMAIN rel : rel[p] > 1

\* the statements name the columns as {fk} and {col2}: the rows of a join table
\* read as (fk, col2) pairs, and back
fk_first(table, fk, rel) ==
    IF table = "partner_partner_rel" /\ fk = "dst_id"
    THEN [p \in DOMAIN rel |-> rel[<<p[2], p[1]>>]]
    ELSE rel

\* ---------------------------------------------------------------- unique sites
\* a polymorphic site with a unique index is a set of rows (the index forbids
\* equal rows): [res_model, res_id, partner_id]

\* uniq_cols = set(uniq_cols) - {ir.res_id, ir.res_model, ir.res_model_id}
extra_columns(uniq_cols) == uniq_cols \ {"res_id", "res_model", "res_model_id"}

\* jmap_expr: '"res_id" = _upgrade_rrr.new', or "true" when no id changes
jmap_expr(a, e, t) ==
    IF ~id_update(a.id_mapping) THEN TRUE ELSE e.res_id = a.id_mapping[t.res_id]

\* EXISTS(SELECT 1 FROM {ir.table} WHERE {res_model_whr} AND {jmap_expr} AND col = t.col ...)
uniq_conflict(a, rows, uniq_cols, t) ==
    \E e \in rows :
        /\ e.res_model = a.model_dst
        /\ jmap_expr(a, e, t)
        /\ \A c \in extra_columns(uniq_cols) : e[c] = t[c]

\* the UPDATE with one NOT EXISTS condition per unique index
uniq_new_row(a, rows, indexes, t) ==
    IF /\ poly_matches(a, t)
       /\ \A n \in DOMAIN indexes : ~uniq_conflict(a, rows, indexes[n], t)
    THEN poly_new_row(a, t)
    ELSE t

uniq_update(a, rows, indexes) == {uniq_new_row(a, rows, indexes, t) : t \in rows}

\* the unique index rejects the UPDATE when two rows end up equal
uniq_violation(a, rows, indexes) ==
    \E t1, t2 \in rows :
        t1 # t2 /\ uniq_new_row(a, rows, indexes, t1) = uniq_new_row(a, rows, indexes, t2)

\* DELETE FROM {ir.table} USING _upgrade_rrr WHERE {whr} AND {ir.res_id} = _upgrade_rrr.old
uniq_delete(a, rows) == {t \in rows : ~poly_matches(a, t)}

\* ---------------------------------------------------------------- defaults, references
\* UPDATE ir_default d SET json_value = r.new::varchar FROM _upgrade_rrr r, ir_model_fields f
\*  WHERE f.id = d.field_id AND d.json_value = r.old::varchar AND (f.model, f.name) IN fk_def
ir_default_update(m, fk_def, rows) ==
    [i \in DOMAIN rows |->
        IF /\ <<rows[i].model, rows[i].name>> \in fk_def
           /\ \E k \in DOMAIN m : varchar(k) = rows[i].json_value
        THEN [rows[i] EXCEPT !.json_value =
                 varchar(m[CHOOSE k \in DOMAIN m : varchar(k) = rows[i].json_value])]
        ELSE rows[i]]

\* UPDATE "{table}" t SET "{column}" = r.new FROM _ref r WHERE t."{column}" = r.old
reference_update(a, rows) ==
    [i \in DOMAIN rows |->
        IF \E k \in DOMAIN a.id_mapping : concat_ref(a.model_src, k) = rows[i]
        THEN concat_ref(a.model_dst,
                 a.id_mapping[CHOOSE k \in DOMAIN a.id_mapping :
                                  concat_ref(a.model_src, k) = rows[i]])
        ELSE rows[i]]

\* ---------------------------------------------------------------- the function
Raise(st, type, at) == [st EXCEPT !.err = [type |-> type, at |-> at]]

\* one iteration of "for table, fk, _, _ in get_fk(cr, model_src_table)"
fk_iteration(st, a, sch, edge) ==
    LET table == edge[1]
        fk == edge[2]
        m == a.id_mapping
    IN  IF table \in ignores_of(a) THEN st
        ELSE IF ~has_id_column(table)
        THEN LET cols == get_columns(table, fk)
                 col2 == cols[1]
                 upd == m2m_update(m, fk_first(table, fk, st.db[table]))
                 del == m2m_delete_old(m, upd)
                 fin == fk_first(table, fk,
                            IF target_of(table, col2) = <<table_of_model(a.model_src), "id">>
                            THEN m2m_delete_selfloops(m, del)
                            ELSE del)
             IN  IF Len(cols) # 1 THEN Raise(st, "AssertionError", table)
                 ELSE IF sch.rel_unique /\ HasDuplicate(upd)
                 THEN Raise(st, "UniqueViolation", table)
                 ELSE [st EXCEPT !.db[table] = fin]
        ELSE LET res == parallel_execute("fk", a, st.db[table], st.writes,
                                         explode_query_range(DOMAIN st.db[table]))
             IN  [st EXCEPT !.db[table] = res.rows,
                            !.writes = res.writes,
                            !.fk_def = @ \cup {<<model_of_table(table), fk>>}]

RECURSIVE fk_loop(_, _, _, _)
fk_loop(st, a, sch, edges) ==
    IF edges = << >> \/ st.err # NoError THEN st
    ELSE fk_loop(fk_iteration(st, a, sch, Head(edges)), a, sch, Tail(edges))

\* "if fk_def:" the default values of the rewritten FK fields
defaults_step(st, a) ==
    IF st.err # NoError \/ st.fk_def = {} THEN st
    ELSE [st EXCEPT !.db.ir_default = ir_default_update(a.id_mapping, st.fk_def, @)]

\* one iteration of "for ir in indirect_references(cr, bound_only=True)"
ir_iteration(st, a, ir) ==
    LET indexes == _get_unique_indexes_with(ir.table)
        rows == st.db[ir.table]
    IN  IF ir.table \in ignores_of(a) THEN st
        ELSE IF indexes # << >>
        THEN IF uniq_violation(a, rows, indexes)
             THEN Raise(st, "UniqueViolation", ir.table)
             ELSE [st EXCEPT !.db[ir.table] = uniq_delete(a, uniq_update(a, rows, indexes))]
        ELSE [st EXCEPT !.db[ir.table] =
                 parallel_execute("ir", a, rows, [i \in DOMAIN rows |-> 0],
                                  explode_query_range(DOMAIN rows)).rows]

RECURSIVE ir_loop(_, _, _)
ir_loop(st, a, sites) ==
    IF sites = << >> \/ st.err # NoError THEN st
    ELSE ir_loop(ir_iteration(st, a, Head(sites)), a, Tail(sites))

\* one iteration of "for model, column in cr.fetchall()" over the reference fields
reference_iteration(st, a, field) ==
    LET table == table_of_model(field[1])
    IN  IF table \in ignores_of(a) THEN st
        ELSE [st EXCEPT !.db[table] = reference_update(a, @)]

RECURSIVE reference_loop(_, _, _)
reference_loop(st, a, fields) ==
    IF fields = << >> \/ st.err # NoError THEN st
    ELSE reference_loop(reference_iteration(st, a, Head(fields)), a, Tail(fields))

\* a faulty variant of fk_part: the foreign keys are rewritten whatever the destination
fk_part_unconditional(st, a, sch) ==
    defaults_step(fk_loop(st, a, sch, get_fk(sch, table_of_model(a.model_src))), a)

\* the FK part runs only "if model_src == model_dst"
fk_part(st, a, sch) ==
    IF a.model_src = a.model_dst
    THEN defaults_step(fk_loop(st, a, sch, get_fk(sch, table_of_model(a.model_src))), a)
    ELSE st

\* a faulty variant of accepted: the "assert nop is False" is missing
accepted_without_nop_check(a) ==
    /\ DOMAIN a.id_mapping # {}
    /\ a.ints

\* the three assertions that precede any statement
accepted(a) ==
    /\ DOMAIN a.id_mapping # {}
    /\ a.ints
    /\ ~(~id_update(a.id_mapping) /\ a.model_src = a.model_dst)

\* a faulty variant of drop_scratch: the final DROP TABLE is missing
keep_scratch(st) == TRUE

\* cr.execute("DROP TABLE _upgrade_rrr") is the last statement: it runs when no
\* statement before it raised; the result tells whether the table still exists
drop_scratch(st) == st.err # NoError

\* replace_record_references_batch on database d: what it leaves behind
run(a, sch, d, scr) ==
    LET st0 == [db |-> d, writes |-> [i \in RowIds |-> 0], fk_def |-> {}, err |-> NoError]
    IN  IF ~accepted(a)
        THEN [db |-> d, writes |-> st0.writes, scratch |-> scr,
              err |-> [type |-> "AssertionError", at |-> "id_mapping"]]
        ELSE IF scr
        THEN [db |-> d, writes |-> st0.writes, scratch |-> scr,
              err |-> [type |-> "DuplicateTable", at |-> "_upgrade_rrr"]]
        ELSE LET st == reference_loop(ir_loop(fk_part(st0, a, sch), a, indirect_references),
                                      a, reference_fields)
             IN  [db |-> st.db, writes |-> st.writes, scratch |-> drop_scratch(st),
                  err |-> st.err]

\* ---------------------------------------------------------------- initial databases
BaseDb ==
    [ sale_order |-> [i \in RowIds |-> ((i - 1) % MaxId) + 1],
      partner_category_rel |->
          [p \in JoinPairs |-> IF p \in {<<1, 10>>, <<2, 20>>} THEN 1 ELSE 0],
      partner_partner_rel |->
          [p \in SelfPairs |-> 0],
      ir_attachment |->
          [i \in RowIds |-> [res_model |-> IF i % 2 = 1 THEN ModelSrc ELSE ModelOther,
                             res_id |-> 1]],
      ir_model_data |->
          [i \in RowIds |-> [res_model |-> IF i % 2 = 1 THEN ModelSrc ELSE ModelOther,
                             res_id |-> ((i - 1) % MaxId) + 1]],
      mail_followers |->
          { [res_model |-> ModelSrc, res_id |-> 1, partner_id |-> 7],
            [res_model |-> ModelOther, res_id |-> 2, partner_id |-> 8] },
      ir_default |->
          << [model |-> "sale.order", name |-> "partner_id", json_value |-> "1"],
             [model |-> "sale.order", name |-> "user_id", json_value |-> "1"] >>,
      ir_property |-> << "res.partner,1", "res.users,1" >> ]

\* on_delete: the ON DELETE action of sale_order.partner_id; rel_unique: the join
\* tables have a unique index on their two columns; self_rel: the installed
\* modules include the one that creates partner_partner_rel and its foreign keys
BaseSchema == [on_delete |-> "r", rel_unique |-> TRUE, self_rel |-> FALSE]

PolyRows == [res_model : Models, res_id : Ids]
FollowerRows == [res_model : Models, res_id : Ids, partner_id : FollowerIds]

\* the databases a run starts from: one table holds any rows within the bounds,
\* the others hold the rows of BaseDb
InitialDatabases ==
    { [db |-> [BaseDb EXCEPT !.sale_order = t], schema |-> [BaseSchema EXCEPT !.on_delete = od]] :
        t \in [RowIds -> Ids \cup {NoId}], od \in {"r", "c"} }
    \cup
    { [db |-> [BaseDb EXCEPT !.partner_category_rel = t],
       schema |-> [BaseSchema EXCEPT !.rel_unique = u]] :
        t \in {b \in [JoinPairs -> {0, 1}] : SumOver(b, JoinPairs) <= NRows}, u \in BOOLEAN }
    \cup
    { [db |-> [BaseDb EXCEPT !.ir_attachment = t], schema |-> BaseSchema] :
        t \in [RowIds -> PolyRows] }
    \cup
    { [db |-> [BaseDb EXCEPT !.mail_followers = t], schema |-> BaseSchema] :
        t \in {s \in SUBSET FollowerRows : Cardinality(s) <= NRows} }

\* the rows the self-referencing join table starts with: none, one or two
SelfRows == {{}} \cup {{p, q} : p, q \in SelfPairs}

\* the databases a run over the self-referencing join table starts from
SelfRelDatabases ==
    { [db |-> [BaseDb EXCEPT !.partner_partner_rel = t],
       schema |-> [BaseSchema EXCEPT !.rel_unique = u, !.self_rel = TRUE]] :
        t \in {[p \in SelfPairs |-> IF p \in rows THEN 1 ELSE 0] : rows \in SelfRows},
        u \in BOOLEAN }

InitFrom(databases) ==
    /\ \E i \in databases : db = i.db /\ schema = i.schema
    /\ db0 = db
    /\ args = NoCall
    /\ pc = "idle"
    /\ err = NoError
    /\ scratch = FALSE
    /\ fk_writes = [i \in RowIds |-> 0]
    /\ report = {}
    /\ queue = {}
    /\ stack = << >>
    /\ done_refs = {}
    /\ visits = 0

Init == InitFrom(InitialDatabases)

InitSelfRel == InitFrom(SelfRelDatabases)

\* ---------------------------------------------------------------- actions
Perform(a) ==
    \E r \in {run(a, schema, db, scratch)} :
        /\ db0' = db
        /\ args' = a
        /\ db' = r.db
        /\ fk_writes' = r.writes
        /\ err' = r.err
        /\ scratch' = r.scratch
        /\ pc' = IF r.err = NoError THEN "done" ELSE "raised"
        /\ UNCHANGED <<schema, report, queue, stack, done_refs, visits>>

\* a migration script calls replace_record_references_batch
replace_record_references_batch(a) ==
    /\ pc = "idle"
    /\ Perform(a)

\* the script runs the same call once more in the same session
Rerun ==
    /\ pc # "idle"
    /\ Perform(args)

Next ==
    \/ \E a \in Calls : replace_record_references_batch(a)
    \/ Rerun

Spec == Init /\ [][Next]_vars

\* the same calls over databases whose self-referencing join table varies
SpecSelfRel == InitSelfRel /\ [][Next]_vars

\* ---------------------------------------------------------------- properties
\* the last call, its mapping and what it was told to ignore
Called == pc # "idle"
Returned == pc = "done"
SameEntity == args.model_src = args.model_dst
Mapping == args.id_mapping
Keys == DOMAIN args.id_mapping
NewIds == {args.id_mapping[k] : k \in DOMAIN args.id_mapping}
Ignored == ignores_of(args)
PolySites == {"ir_attachment", "ir_model_data"}
RefersToSource(row) == row.res_model = args.model_src /\ row.res_id \in Keys

\* no row of a non-ignored referring column holds an id of S
NoRowReferences(S) ==
    /\ "sale_order" \notin Ignored => \A i \in RowIds : db.sale_order[i] \notin S
    /\ "partner_category_rel" \notin Ignored =>
           \A p \in JoinPairs : db.partner_category_rel[p] > 0 => p[1] \notin S
    /\ (schema.self_rel /\ "partner_partner_rel" \notin Ignored) =>
           \A p \in SelfPairs : db.partner_partner_rel[p] > 0 => (p[1] \notin S /\ p[2] \notin S)
    /\ \A t \in PolySites : t \notin Ignored =>
           \A i \in RowIds : ~(db[t][i].res_model = args.model_src /\ db[t][i].res_id \in S)
    /\ "mail_followers" \notin Ignored =>
           \A r \in db.mail_followers : ~(r.res_model = args.model_src /\ r.res_id \in S)

\* C1 as stated: after a same-entity rewrite returns, no row of a non-ignored
\* direct FK column, join-table column or polymorphic site references a key of
\* id_mapping, for every accepted mapping (chains and swaps included).
C1_NoKeyReferenced == (Returned /\ SameEntity) => NoRowReferences(Keys)

\* C1 amended: after a same-entity rewrite returns, no row of a non-ignored
\* direct FK column, join-table column or polymorphic site references a key of
\* id_mapping that is not also a new id (a value) of the mapping.
C1_NoRetiredKeyReferenced == (Returned /\ SameEntity) => NoRowReferences(Keys \ NewIds)

\* a returned same-entity rewrite with a chain old -> new -> newer, nothing
\* ignored, over FK rows, join rows and polymorphic rows that held a retired key
C1_Witness ==
    /\ Returned /\ SameEntity /\ Ignored = {}
    /\ \E k \in Keys : Mapping[k] # k /\ Mapping[k] \in Keys
    /\ \E i \in RowIds : db0.sale_order[i] \in Keys \ NewIds
    /\ \E p \in JoinPairs : db0.partner_category_rel[p] > 0 /\ p[1] \in Keys \ NewIds
    /\ \E i \in RowIds : RefersToSource(db0.ir_attachment[i])

\* C2: in a same-entity rewrite, every row of the non-ignored plain table whose
\* FK column held a key old holds id_mapping[old] afterwards and was written
\* exactly once; every row whose FK column held no key is unchanged and was
\* not written; whatever the on-delete action of the foreign key.
C2_DirectFkRewritten ==
    (Returned /\ SameEntity /\ "sale_order" \notin Ignored) =>
        \A i \in RowIds :
            IF db0.sale_order[i] \in Keys
            THEN db.sale_order[i] = Mapping[db0.sale_order[i]] /\ fk_writes[i] = 1
            ELSE db.sale_order[i] = db0.sale_order[i] /\ fk_writes[i] = 0

\* a restrict FK, a chain mapping, a row that held the head of the chain and a
\* row that held no key
C2_Witness ==
    /\ Returned /\ SameEntity /\ "sale_order" \notin Ignored
    /\ schema.on_delete = "r"
    /\ \E i \in RowIds :
           /\ db0.sale_order[i] \in Keys
           /\ Mapping[db0.sale_order[i]] \in Keys \ {db0.sale_order[i]}
    /\ \E j \in RowIds : db0.sale_order[j] \notin Keys

\* C3: after a same-entity rewrite of the join table, the table holds no
\* duplicate (colA, colB) pair (the rewrite does not fail on the pair's unique
\* constraint either), for every accepted mapping, also when rerun.
C3_NoDuplicatePair ==
    (Called /\ SameEntity /\ "partner_category_rel" \notin Ignored) =>
        /\ ~HasDuplicate(db.partner_category_rel)
        /\ err.at # "partner_category_rel"

\* C4: a same-entity rewrite loses no many-to-many link: for every join row
\* (old, x) present before, a row (id_mapping[old], x) is present afterwards.
C4_NoLinkLost ==
    (Returned /\ SameEntity /\ "partner_category_rel" \notin Ignored) =>
        \A p \in JoinPairs :
            (db0.partner_category_rel[p] > 0 /\ p[1] \in Keys) =>
                db.partner_category_rel[<<Mapping[p[1]], p[2]>>] > 0

\* C5: on the site with a unique index, every accepted rewrite resolves the
\* conflicts itself (update when free, delete otherwise), so that the index on
\* (entity, id, extra key values) is never violated, also when two old ids map
\* to the same new id and their rows share the extra key values.
C5_UniqueSiteNeverConflicts ==
    (Called /\ accepted(args) /\ "mail_followers" \notin Ignored) =>
        ~(err.type = "UniqueViolation" /\ err.at = "mail_followers")

\* C6: on the site with a unique index, a row referencing (source entity, old)
\* is deleted only when a row with the destination entity, the mapped id and the
\* same extra key values existed; in particular, in a cross-entity rewrite with
\* the identity mapping, a row is kept and retargeted to the destination entity
\* when the rows that carry the destination entity and the same extra key
\* values all have another record id.
C6_DeletedOnlyOnConflict ==
    (Returned /\ ~SameEntity /\ ~id_update(Mapping) /\ "mail_followers" \notin Ignored) =>
        \A t \in db0.mail_followers :
            LET survivor == [res_model |-> args.model_dst, res_id |-> Mapping[t.res_id],
                             partner_id |-> t.partner_id]
            IN  (RefersToSource(t) /\ survivor \notin db0.mail_followers) =>
                    survivor \in db.mail_followers

\* C7: on every non-ignored polymorphic site without a unique index, a rewrite
\* (same-entity or cross-entity) turns each row (source entity, old) into
\* (destination entity, id_mapping[old]) and leaves every other row unchanged.
C7_PolymorphicRewritten ==
    Returned =>
        \A t \in PolySites : t \notin Ignored =>
            \A i \in RowIds :
                db[t][i] = IF RefersToSource(db0[t][i])
                           THEN [res_model |-> args.model_dst,
                                 res_id |-> Mapping[db0[t][i].res_id]]
                           ELSE db0[t][i]

\* a returned cross-entity rewrite that changes ids, over a site with a row of
\* the source entity on an old id and a row of another entity on the same id
C7_Witness ==
    /\ Returned /\ ~SameEntity /\ "ir_attachment" \notin Ignored
    /\ \E i, j \in RowIds :
           /\ RefersToSource(db0.ir_attachment[i])
           /\ Mapping[db0.ir_attachment[i].res_id] # db0.ir_attachment[i].res_id
           /\ db0.ir_attachment[j].res_model # args.model_src
           /\ db0.ir_attachment[j].res_id = db0.ir_attachment[i].res_id

JoinTableHoldsOldIds == \E p \in JoinPairs : db0.partner_category_rel[p] > 0 /\ p[1] \in Keys

NoOpMapping == args.ints /\ \A k \in Keys : Mapping[k] = k

\* C10 as stated: a same-entity rewrite with a no-op mapping ({} or {x: x})
\* completes and leaves the database as it was.
C10_NoOpCompletes ==
    (Called /\ SameEntity /\ NoOpMapping) => (pc = "done" /\ db = db0)

\* C10 amended: a same-entity rewrite with a no-op mapping ({} or {x: x}) is
\* rejected by an assertion before any statement runs: it raises
\* AssertionError, creates no scratch table and leaves the database as it was.
C10_NoOpRejected ==
    (Called /\ SameEntity /\ NoOpMapping) =>
        /\ pc = "raised"
        /\ err.type = "AssertionError"
        /\ db = db0
        /\ ~scratch

\* a rejected {x: x} over rows that reference x
C10_Witness ==
    /\ Called /\ SameEntity /\ NoOpMapping /\ Keys # {}
    /\ \E i \in RowIds : db.sale_order[i] \in Keys

\* C27: the scratch table _upgrade_rrr exists only while a rewrite is running.
\* On every normal return it has been dropped, so a following rewrite creates
\* it again; a rewrite rejected by the precondition assertions (empty mapping,
\* non-integer ids, no-op mapping) does not create it; a rewrite that raises
\* after creating it leaves it behind, and a following rewrite in the same
\* session fails when it creates the table, before it writes anything.
C27_ScratchLifecycle ==
    /\ [](pc = "done" => ~scratch)
    /\ [](err.at = "_upgrade_rrr" => (pc = "raised" /\ scratch))
    /\ [][ /\ ~accepted(args') =>
                 /\ scratch' = scratch
                 /\ pc' = "raised" /\ err'.type = "AssertionError"
           /\ (accepted(args') /\ ~scratch) =>
                 /\ err'.at # "_upgrade_rrr"
                 /\ scratch' = (pc' = "raised")
           /\ (accepted(args') /\ scratch) =>
                 /\ pc' = "raised" /\ err'.at = "_upgrade_rrr"
                 /\ scratch' /\ db' = db ]_vars

\* a rewrite that found the table left behind by the failed rewrite before it
C27_Witness ==
    /\ pc = "raised" /\ err.at = "_upgrade_rrr" /\ scratch
    /\ accepted(args)

\* ================================================================ removal
\* remove_menus, remove_view, remove_record(s) and _rm_refs work on a database of
\*   ir_ui_menu       id -> [parent_id, action]    (action is a reference field)
\*   ir_ui_view       id -> [inherit_id, mode, active, name, key]
\*   product_template id -> [name]
\*   product_product  id -> [product_tmpl_id]     (delegates to product.template)
\*   product_pack     id -> [product_id]          (delegates to product.product)
\*   ir_property      id -> [value_reference]     (a reference field)
\*   ir_attachment, mail_followers               sets of rows (polymorphic sites)
\*   ir_model_data    set of [module, name, res_model, res_id]
\*   ir_values        set of [value]

\* the recursion limit of the interpreter (sys.getrecursionlimit()), scaled to the
\* bounds: above the deepest chain of delegations and references of a database
RecursionLimit == NRows + MaxId + 2

\* a faulty variant of delete_ids: the DELETE is missing, the rows stay
delete_ids_nothing(rows, ids) == rows

\* DELETE FROM {table} WHERE id IN ids
delete_ids(rows, ids) == [i \in DOMAIN rows \ ids |-> rows[i]]

\* WITH RECURSIVE tree(id): the menus of menu_ids and, step by step, the menus
\* whose parent_id is in the tree
\* a faulty variant of menu_tree: no recursive term, the submenus are not collected
menu_tree_flat(menus, tree) == tree

RECURSIVE menu_tree(_, _)
menu_tree(menus, tree) ==
    LET more == {i \in DOMAIN menus : menus[i].parent_id \in tree} \ tree
    IN  IF more = {} THEN tree ELSE menu_tree(menus, tree \cup more)

remove_menus(st, menu_ids) ==
    IF st.err # NoError \/ menu_ids = {} THEN st
    ELSE LET ids == menu_tree(st.db.ir_ui_menu, menu_ids \cap DOMAIN st.db.ir_ui_menu)
             deleted == [st EXCEPT !.db.ir_ui_menu = delete_ids(@, ids)]
         IN  IF ids = {} THEN deleted
             ELSE [deleted EXCEPT !.db.ir_model_data =
                      {x \in @ : ~(x.res_model = "ir.ui.menu" /\ x.res_id \in ids)}]

\* ---------------------------------------------------------------- removal: catalog
\* inherit.for_each_inherit(cr, model, skip=()): the models that inherit from
\* `model` directly, with the delegation column (via) if they delegate to it
for_each_inherit(model) ==
    CASE model = "product.template" ->
             << [model |-> "product.product", via |-> "product_tmpl_id"],
                [model |-> "product.pack", via |-> "legacy_template_id"] >>
      [] model = "product.product" ->
             << [model |-> "product.mixin", via |-> ""],
                [model |-> "product.pack", via |-> "product_id"] >>
      [] OTHER -> << >>

\* pg.column_exists(cr, table, column)
column_exists(table, column) ==
    CASE table = "ir_ui_view" -> column \in {"id", "inherit_id", "mode", "active", "name", "key"}
      [] table = "ir_ui_menu" -> column \in {"id", "parent_id", "action"}
      [] table = "product_template" -> column \in {"id", "name"}
      [] table = "product_product" -> column \in {"id", "product_tmpl_id"}
      [] table = "product_pack" -> column \in {"id", "product_id"}
      [] table = "ir_property" -> column \in {"id", "value_reference"}
      [] table = "crm_tag_rel" -> column \in {"lead_id", "tag_id"}
      [] table = "x_tag_rel" -> column \in {"x", "tag_id"}
      [] table = "crm_lead" -> column \in {"id", "name", "tag_id"}
      [] OTHER -> FALSE

\* pg.table_exists(cr, table)
table_exists(d, table) == table \in DOMAIN d

\* pg.column_updatable(cr, table, column): the column exists in a table that
\* can be written (ir_translation is not a table of this database)
column_updatable(table, column) == column_exists(table, column)

\* SELECT model, name FROM ir_model_fields WHERE ttype='reference'
\* UNION SELECT 'ir.translation', 'name'
reference_fields_and_translation ==
    << <<"ir.property", "value_reference">>, <<"ir.ui.menu", "action">>,
       <<"ir.translation", "name">> >>

\* x.module !~ '^_'
module_owned(x) == x.module \notin {"__export__", "__custom__"}

\* x.module || '.' || x.name
xmlid_of(x) == x.module \o "." \o x.name

\* the rows a cursor fetched, in the order it hands them out
RECURSIVE fetchall(_)
fetchall(S) ==
    IF S = {} THEN << >>
    ELSE LET x == CHOOSE y \in S : TRUE IN <<x>> \o fetchall(S \ {x})

\* ---------------------------------------------------------------- removal: functions
\* ref(cr, xmlid): the res_id of the external identifier, None (NoId) without one
ref(d, xmlid) ==
    LET found == {x \in d.ir_model_data : xmlid_of(x) = xmlid}
    IN  IF found = {} THEN NoId ELSE (CHOOSE x \in found : TRUE).res_id

\* SELECT v.id, x.module || '.' || x.name, v.name FROM ir_ui_view v LEFT JOIN
\* ir_model_data x ON (...) WHERE v.inherit_id = view_id
view_children(d, view_id) ==
    LET kids == {v \in DOMAIN d.ir_ui_view : d.ir_ui_view[v].inherit_id = view_id}
        owned(v) == {x \in d.ir_model_data :
                        x.res_id = v /\ x.res_model = "ir.ui.view" /\ module_owned(x)}
    IN  { [id |-> v, xml_id |-> "", name |-> d.ir_ui_view[v].name] : v \in {k \in kids : owned(k) = {}} }
        \cup
        UNION { { [id |-> v, xml_id |-> xmlid_of(x), name |-> d.ir_ui_view[v].name] : x \in owned(v) } :
                v \in kids }

\* the custom inheriting view is renamed, detached and deactivated, and reported
disable_view(st, child, origin) ==
    LET views == st.db.ir_ui_view
        updated == IF child.id \in DOMAIN views
                   THEN [views EXCEPT ![child.id] =
                            [@ EXCEPT !.name = @ \o " - old view, inherited from " \o origin,
                                      !.inherit_id = NoId,
                                      !.mode = "primary",
                                      !.active = FALSE]]
                   ELSE views
    IN  [st EXCEPT !.db.ir_ui_view = updated,
                   !.report = @ \cup {[id |-> child.id, name |-> child.name]}]

\* UPDATE ir_ui_view SET arch = '<form/>' WHERE id = ref(cr, "base.user_groups_view")
user_groups_view_shim(d) ==
    LET view_id == ref(d, "base.user_groups_view")
    IN  IF view_id \in DOMAIN d.ir_ui_view
        THEN [d EXCEPT !.ir_ui_view[view_id].arch = "<form/>"]
        ELSE d

RECURSIVE remove_view(_, _, _, _)
RECURSIVE remove_cowed_views(_, _, _)
RECURSIVE remove_inheriting_views(_, _, _)
RECURSIVE remove_views(_, _)
RECURSIVE remove_records(_, _, _)
RECURSIVE inherits_loop(_, _, _)
RECURSIVE inherits_loop_one_level(_, _, _)
RECURSIVE _rm_refs(_, _, _)
RECURSIVE rm_refs_loop(_, _, _)
RECURSIVE remove_record(_, _)
RECURSIVE remove_each_record(_, _, _)

\* remove_view(cr, xml_id, view_id, silent, key); "" stands for an xml_id or key
\* that is not given, NoId for a view_id that is not given
remove_view(st, xml_id, view_id, key) ==
    IF st.err # NoError THEN st
    ELSE IF (xml_id # "") = (view_id # NoId) THEN Raise(st, "AssertionError", "remove_view")
    ELSE
    LET d == st.db
        vid == IF xml_id # "" THEN ref(d, xml_id) ELSE view_id
        own == {x \in d.ir_model_data : x.res_model = "ir.ui.view" /\ x.res_id = view_id}
        xid == IF xml_id # "" THEN xml_id
               ELSE IF key = "" /\ own # {} THEN xmlid_of(CHOOSE x \in own : TRUE)
               ELSE "?"
        target == {x \in d.ir_model_data : xmlid_of(x) = xml_id}
    IN  IF xml_id # "" /\ vid # NoId /\ (CHOOSE x \in target : TRUE).res_model # "ir.ui.view"
        THEN Raise(st, "ValueError", xml_id)
        ELSE LET cowed == IF xid # "?" /\ vid # NoId /\ column_exists("ir_ui_view", "key")
                          THEN {v \in DOMAIN d.ir_ui_view : d.ir_ui_view[v].key = xid /\ v # vid}
                          ELSE {}
                 st1 == remove_cowed_views(st, fetchall(cowed), xid)
             IN  IF vid = NoId \/ st1.err # NoError THEN st1
                 ELSE remove_records(
                          remove_inheriting_views(st1, fetchall(view_children(st1.db, vid)),
                                                  IF key # "" THEN key ELSE xid),
                          "ir.ui.view", {vid})

\* for [v_id] in cr.fetchall(): remove_view(cr, view_id=v_id, silent=silent, key=xml_id)
remove_cowed_views(st, v_ids, xml_id) ==
    IF v_ids = << >> THEN st
    ELSE remove_cowed_views(remove_view(st, "", Head(v_ids), xml_id), Tail(v_ids), xml_id)

\* for child_id, child_xml_id, child_name in cr.fetchall(): ...
remove_inheriting_views(st, children, origin) ==
    IF children = << >> \/ st.err # NoError THEN st
    ELSE LET child == Head(children)
         IN  remove_inheriting_views(
                 IF child.xml_id # "" THEN remove_view(st, child.xml_id, NoId, "")
                 ELSE disable_view(st, child, origin),
                 Tail(children), origin)

\* for (view_id,) in cr.fetchall(): remove_view(cr, view_id=view_id)
remove_views(st, view_ids) ==
    IF view_ids = << >> THEN st
    ELSE remove_views(remove_view(st, "", Head(view_ids), ""), Tail(view_ids))

\* a faulty variant of delete_indirect_references: the polymorphic sites keep their rows
keep_indirect_references(d, model, ids) == d

\* DELETE FROM {ir.table} WHERE {model_filter} AND {res_id} IN ids, for each
\* bound indirect reference
delete_indirect_references(d, model, ids) ==
    [t \in DOMAIN d |->
        IF \E k \in DOMAIN indirect_references : indirect_references[k].table = t
        THEN {x \in d[t] : ~(x.res_model = model /\ x.res_id \in ids)}
        ELSE d[t]]

\* remove_records(cr, model, ids); no model of this database is a theme model
\* (_get_theme_models().get(model) is None)
\* every call is one more python frame: the interpreter raises RecursionError
\* when the frames exceed its recursion limit
remove_records(st, model, ids) ==
    IF st.err # NoError \/ ids = {} THEN st
    ELSE IF st.depth >= RecursionLimit
    THEN [st EXCEPT !.err = [type |-> "RecursionError", at |-> "remove_records"]]
    ELSE LET st0 == [st EXCEPT !.depth = @ + 1, !.visits = @ + 1]
             st1 == inherits_loop(st0, for_each_inherit(model), ids)
             table == table_of_model(model)
             st2 == _rm_refs([st1 EXCEPT !.db = delete_indirect_references(
                                           [@ EXCEPT ![table] = delete_ids(@, ids)], model, ids)],
                             model, ids)
             st3 == IF st1.err # NoError THEN st1
                    ELSE IF model = "res.groups" /\ st2.err = NoError
                    THEN [st2 EXCEPT !.db = user_groups_view_shim(@)]
                    ELSE st2
         IN  [st3 EXCEPT !.depth = st.depth]

\* a faulty variant of inherits_loop: the rows that delegate to the removed rows are
\* deleted, the rows that delegate to those are not looked for
inherits_loop_one_level(st, inhs, ids) ==
    IF inhs = << >> THEN st
    ELSE LET inh == Head(inhs)
             table == table_of_model(inh.model)
         IN  inherits_loop_one_level(
                 IF inh.via = "" \/ ~column_exists(table, inh.via) THEN st
                 ELSE [st EXCEPT !.db[table] =
                          delete_ids(@, {i \in DOMAIN @ : @[i][inh.via] \in ids})],
                 Tail(inhs), ids)

\* for inh in for_each_inherit(cr, model, skip=()): ...
inherits_loop(st, inhs, ids) ==
    IF inhs = << >> \/ st.err # NoError THEN st
    ELSE LET inh == Head(inhs)
             table == table_of_model(inh.model)
             fetched == {i \in DOMAIN st.db[table] : st.db[table][i][inh.via] \in ids}
         IN  inherits_loop(
                 IF inh.via = "" THEN st
                 ELSE IF ~column_exists(table, inh.via) THEN st
                 ELSE IF inh.model = "ir.ui.menu" THEN remove_menus(st, fetched)
                 ELSE IF inh.model = "ir.ui.view" THEN remove_views(st, fetchall(fetched))
                 ELSE remove_records(st, inh.model, fetched),
                 Tail(inhs), ids)

\* a faulty variant of _rm_refs: the rows that hold a reference to the removed records stay
rm_refs_nothing(st, model, ids) == st

\* _rm_refs(cr, model, ids) with ids given
_rm_refs(st, model, ids) ==
    IF st.err # NoError \/ ids = {} THEN st
    ELSE LET needle == {concat_ref(model, i) : i \in ids}
             st1 == rm_refs_loop(st, reference_fields_and_translation, needle)
         IN  IF st1.err = NoError /\ table_exists(st1.db, "ir_values")
             THEN [st1 EXCEPT !.db.ir_values = {v \in @ : v.value \notin needle}]
             ELSE st1

\* for ref_model, ref_column in cr.fetchall(): ...
rm_refs_loop(st, fields, needle) ==
    IF fields = << >> \/ st.err # NoError THEN st
    ELSE LET ref_model == Head(fields)[1]
             ref_column == Head(fields)[2]
             table == table_of_model(ref_model)
             found == {i \in DOMAIN st.db[table] : st.db[table][i][ref_column] \in needle}
         IN  rm_refs_loop(
                 IF ~column_updatable(table, ref_column) THEN st
                 ELSE IF ref_model = "ir.ui.view" THEN remove_views(st, fetchall(found))
                 ELSE IF ref_model = "ir.ui.menu" THEN remove_menus(st, found)
                 ELSE remove_each_record(st, ref_model, fetchall(found)),
                 Tail(fields), needle)

\* for (record_id,) in cr.fetchall(): remove_record(cr, (ref_model, record_id))
remove_each_record(st, ref_model, record_ids) ==
    IF record_ids = << >> THEN st
    ELSE remove_each_record(remove_record(st, [xmlid |-> "", model |-> ref_model, res_id |-> Head(record_ids)]),
                            ref_model, Tail(record_ids))

\* remove_record(cr, name): name is a qualified xmlid or a (model, res_id) pair;
\* no record of this database is a res.groups
remove_record(st, name) ==
    LET found == {x \in st.db.ir_model_data : xmlid_of(x) = name.xmlid}
        model == IF name.xmlid = "" THEN name.model ELSE (CHOOSE x \in found : TRUE).res_model
        res_id == IF name.xmlid = "" THEN name.res_id ELSE (CHOOSE x \in found : TRUE).res_id
    IN  IF st.err # NoError THEN st
        ELSE IF name.xmlid # "" /\ found = {} THEN st
        ELSE IF model = "ir.ui.view" THEN remove_view(st, "", res_id, "")
        ELSE IF model = "ir.ui.menu" THEN remove_menus(st, {res_id})
        ELSE remove_records(st, model, {res_id})

\* ---------------------------------------------------------------- removal: runs
XmlId(module, name, model, id) ==
    [module |-> module, name |-> name, res_model |-> model, res_id |-> id]

BaseRm ==
    [ ir_ui_menu |-> (1 :> [parent_id |-> NoId, action |-> ""])
                     @@ (2 :> [parent_id |-> 1, action |-> ""]),
      ir_ui_view |->
          (1 :> [inherit_id |-> NoId, mode |-> "primary", active |-> TRUE, name |-> "v1", key |-> ""])
          @@ (2 :> [inherit_id |-> 1, mode |-> "extension", active |-> TRUE, name |-> "v2", key |-> ""]),
      product_template |-> [i \in Ids |-> [name |-> "t"]],
      product_product |-> [i \in RowIds |-> [product_tmpl_id |-> i]],
      product_pack |-> [i \in RowIds |-> [product_id |-> i]],
      ir_property |-> (1 :> [value_reference |-> "product.template,1"]),
      ir_attachment |-> { [res_model |-> "product.template", res_id |-> 1],
                          [res_model |-> "ir.ui.menu", res_id |-> 1] },
      mail_followers |-> {},
      ir_model_data |-> { XmlId("base", "menu_1", "ir.ui.menu", 1),
                          XmlId("base", "menu_2", "ir.ui.menu", 2),
                          XmlId("base", "view_1", "ir.ui.view", 1),
                          XmlId("base", "view_2", "ir.ui.view", 2),
                          XmlId("base", "template_1", "product.template", 1) },
      ir_values |-> { [value |-> "product.template,1"] } ]

\* a table holding the ids of D, each row drawn from Rows
TablesOver(Rows) == UNION {[D -> Rows] : D \in SUBSET Ids}

\* DROP TABLE: the database without the table
WithoutTable(d, table) == [t \in DOMAIN d \ {table} |-> d[t]]

\* any menus, tree-shaped or not, with or without an external identifier
MenuDatabases ==
    { [BaseRm EXCEPT !.ir_ui_menu = t] :
        t \in TablesOver([parent_id : Ids \cup {NoId}, action : {""}]) }

ViewIds == 1 .. 3
ViewModules == {"base", "__export__", ""}

\* a view of the table and the external identifier it has
ViewRow(i, inherit_id, key) ==
    [inherit_id |-> inherit_id, mode |-> IF inherit_id = NoId THEN "primary" ELSE "extension",
     active |-> TRUE, name |-> "v" \o ToString(i), key |-> key]

\* any forest of views (a view inherits from a view with a smaller id), each view
\* with a module's external identifier, an exported one or none, possibly a
\* multi-website copy of base.view_1
ViewTables ==
    UNION { { [i \in D |-> ViewRow(i, inh[i], key[i])] :
                inh \in {f \in [D -> D \cup {NoId}] : \A i \in D : f[i] = NoId \/ f[i] < i},
                key \in [D -> {"", "base.view_1"}] } :
            D \in SUBSET ViewIds }

ViewDatabases ==
    { [BaseRm EXCEPT
          !.ir_ui_view = t,
          !.ir_model_data =
              { XmlId(mod[i], "view_" \o ToString(i), "ir.ui.view", i) : i \in {j \in ViewIds : mod[j] # ""} }
              \cup { XmlId("base", "template_1", "product.template", 1) }] :
        t \in ViewTables, mod \in [ViewIds -> ViewModules] }

\* products that delegate to templates, packs that delegate to products
DelegationDatabases ==
    { [BaseRm EXCEPT !.product_product = pp, !.product_pack = pk] :
        pp \in [RowIds -> [product_tmpl_id : Ids]],
        pk \in [RowIds -> [product_id : RowIds]] }

RefValues ==
    {""} \cup {concat_ref(m, i) : m \in {"product.template", "ir.property"}, i \in RowIds}

\* properties and a menu that refer to templates or to properties, with and
\* without the table ir_values
ReferenceDatabases ==
    LET with == { [BaseRm EXCEPT !.ir_property = pr, !.ir_ui_menu[1].action = ac] :
                    pr \in [RowIds -> [value_reference : RefValues]],
                    ac \in {"", "product.template,1"} }
    IN  with \cup {WithoutTable(d, "ir_values") : d \in with}

RemoveDatabases == DelegationDatabases \cup ReferenceDatabases

InitRm(databases) ==
    /\ db \in databases
    /\ schema = BaseSchema
    /\ db0 = db
    /\ args = NoCall
    /\ pc = "idle"
    /\ err = NoError
    /\ scratch = FALSE
    /\ fk_writes = [i \in RowIds |-> 0]
    /\ report = {}
    /\ queue = {}
    /\ stack = << >>
    /\ done_refs = {}
    /\ visits = 0

InitMenus == InitRm(MenuDatabases)
InitViews == InitRm(ViewDatabases)
InitRemove == InitRm(RemoveDatabases)

\* depth: the python frames of remove_records that have not returned
Starting == [db |-> db, err |-> NoError, report |-> report, depth |-> 0, visits |-> 0]

\* the call `a` ran from the current state and ended in `st`
Ended(a, st) ==
    /\ db0' = db
    /\ args' = a
    /\ db' = st.db
    /\ err' = st.err
    /\ report' = st.report
    /\ visits' = st.visits
    /\ pc' = IF st.err = NoError THEN "done" ELSE "raised"
    /\ UNCHANGED <<schema, scratch, fk_writes, queue, stack, done_refs>>

\* a migration script calls remove_menus(cr, menu_ids)
RemoveMenus(menu_ids) ==
    /\ pc = "idle"
    /\ \E st \in {remove_menus(Starting, menu_ids)} :
           Ended([op |-> "remove_menus", menu_ids |-> menu_ids], st)

\* a migration script calls remove_view(cr, xml_id) or remove_view(cr, view_id=...)
RemoveView(xml_id, view_id) ==
    /\ pc = "idle"
    /\ \E st \in {remove_view(Starting, xml_id, view_id, "")} :
           Ended([op |-> "remove_view", xml_id |-> xml_id, view_id |-> view_id], st)

\* a migration script calls remove_records(cr, model, ids)
RemoveRecords(model, ids) ==
    /\ pc = "idle"
    /\ \E st \in {remove_records(Starting, model, ids)} :
           Ended([op |-> "remove_records", model |-> model, ids |-> ids], st)

\* a migration script calls remove_record(cr, name)
RemoveRecord(name) ==
    /\ pc = "idle"
    /\ \E st \in {remove_record(Starting, name)} :
           Ended([op |-> "remove_record", name |-> name], st)

ViewXmlIds ==
    {"base.view_1", "base.view_2", "base.view_3", "__export__.view_2", "base.template_1"}

RecordNames ==
    { [xmlid |-> "base.template_1", model |-> "", res_id |-> NoId],
      [xmlid |-> "base.menu_1", model |-> "", res_id |-> NoId],
      [xmlid |-> "base.view_1", model |-> "", res_id |-> NoId],
      [xmlid |-> "base.gone", model |-> "", res_id |-> NoId],
      [xmlid |-> "", model |-> "ir.property", res_id |-> 1] }

NextMenus == \E menu_ids \in SUBSET Ids : RemoveMenus(menu_ids)

NextViews ==
    \/ \E xml_id \in ViewXmlIds : RemoveView(xml_id, NoId)
    \/ \E view_id \in ViewIds \cup {NoId} : RemoveView("", view_id)

NextRemove ==
    \/ \E model \in {"product.template", "product.product", "ir.property"}, ids \in SUBSET Ids :
           RemoveRecords(model, ids)
    \/ \E name \in RecordNames : RemoveRecord(name)

SpecMenus == InitMenus /\ [][NextMenus]_vars
SpecViews == InitViews /\ [][NextViews]_vars
SpecRemove == InitRemove /\ [][NextRemove]_vars

\* ---------------------------------------------------------------- removal: properties
CalledOp(op) == pc # "idle" /\ args.op = op
ReturnedOp(op) == pc = "done" /\ args.op = op

\* m is one of `roots` or lies below one of them through at most n parent_id steps
RECURSIVE BelowMenu(_, _, _, _)
BelowMenu(menus, roots, m, n) ==
    /\ m \in DOMAIN menus
    /\ \/ m \in roots
       \/ n > 0 /\ BelowMenu(menus, roots, menus[m].parent_id, n - 1)

Subtrees(menus, roots) == {m \in DOMAIN menus : BelowMenu(menus, roots, m, MaxId)}

\* C16: remove_menus(menu_ids) deletes every menu of menu_ids with its whole
\* subtree (parent_id, transitively), deletes the ir_model_data rows of exactly
\* the menus it deleted and leaves every other menu and row in place; with an
\* empty menu_ids it changes nothing.
C16_MenusAndSubtreesRemoved ==
    ReturnedOp("remove_menus") =>
        LET gone == Subtrees(db0.ir_ui_menu, args.menu_ids)
        IN  /\ db.ir_ui_menu = delete_ids(db0.ir_ui_menu, gone)
            /\ db.ir_model_data =
                   {x \in db0.ir_model_data : ~(x.res_model = "ir.ui.menu" /\ x.res_id \in gone)}
            /\ \A t \in DOMAIN db \ {"ir_ui_menu", "ir_model_data"} : db[t] = db0[t]
            /\ args.menu_ids = {} => db = db0

\* a returned remove_menus that deleted a menu two levels below the given one
\* and the external identifier of a submenu
C16_Witness ==
    /\ ReturnedOp("remove_menus")
    /\ \E m \in DOMAIN db0.ir_ui_menu \ args.menu_ids :
           LET p == db0.ir_ui_menu[m].parent_id
           IN  /\ p \in DOMAIN db0.ir_ui_menu \ args.menu_ids
               /\ db0.ir_ui_menu[p].parent_id \in args.menu_ids
               /\ m \notin DOMAIN db.ir_ui_menu
    /\ \E x \in db0.ir_model_data \ db.ir_model_data : x.res_id \notin args.menu_ids

C12_NoSelfLoopOnNewId ==
    (Returned /\ SameEntity /\ "partner_partner_rel" \notin Ignored) =>
        \A n \in NewIds : db.partner_partner_rel[<<n, n>>] = 0

\* a returned rewrite old -> new over rows (old, new) and (new, old): the old
\* id sat in the first column of one row and in the second column of the other
C12_Witness ==
    /\ Returned /\ SameEntity /\ "partner_partner_rel" \notin Ignored
    /\ \E k \in Keys :
           /\ Mapping[k] # k
           /\ db0.partner_partner_rel[<<k, Mapping[k]>>] > 0
           /\ db0.partner_partner_rel[<<Mapping[k], k>>] > 0

\* C26: a same-entity rewrite deletes from a join table only rows that
\* referenced an old id, and self-loops the remapping produced: a row that
\* referenced no key of id_mapping when the call started, such as a row (n, n)
\* of the self-referencing join table on a new id n, is still there afterwards.
C26_UnrelatedJoinRowsKept ==
    (Returned /\ SameEntity) =>
        /\ "partner_category_rel" \notin Ignored =>
               \A p \in JoinPairs :
                   (db0.partner_category_rel[p] > 0 /\ p[1] \notin Keys) =>
                       db.partner_category_rel[p] > 0
        /\ (schema.self_rel /\ "partner_partner_rel" \notin Ignored) =>
               \A p \in SelfPairs :
                   (db0.partner_partner_rel[p] > 0 /\ p[1] \notin Keys /\ p[2] \notin Keys) =>
                       db.partner_partner_rel[p] > 0

\* ================================================================ uniq_tags
\* uniq_tags(cr, "crm.tag", uniq_column, order) works on a database of
\*   crm_tag        id -> [name]
\*   crm_tag_rel    (lead_id, tag_id) or x_tag_rel (x, tag_id): a join table, a
\*                  bag of pairs, present when the schema has one
\*   crm_lead       id -> [tag_id], present when the schema has the many2one
\*   ir_model_data, ir_attachment, ir_property  as for the removal
\* the schema says which join table there is (rel), whether ir_model_fields
\* declares it as the relation table of a many2many (rel_declared), whether
\* crm_lead.tag_id references crm_tag (m2o) and is declared a many2one field

TagNames == {"A", "a", "B"}
LeadIds == {1, 2}
TagPairs == LeadIds \X Ids

\* the SQL expressions a caller passes as uniq_column and as order
lower(name) == CASE name = "A" -> "a" [] name = "B" -> "b" [] OTHER -> name

uniq_value(row, uniq_column) ==
    IF uniq_column = "lower(name)" THEN lower(row.name) ELSE row.name

\* the rank of the value `order` sorts a row by ("A" < "B" < "a" for names)
order_value(id, row, order) ==
    IF order = "id" THEN id
    ELSE CASE row.name = "A" -> 1 [] row.name = "B" -> 2 [] OTHER -> 3

\* SELECT count(*) FROM ir_model_fields WHERE ttype = 'many2many' AND relation_table = ft
many2many_count(sch, ft) == IF ft = sch.rel /\ sch.rel_declared THEN 1 ELSE 0

\* SELECT count(*) FROM ir_model_fields WHERE model = f_model AND name = fc AND ttype = 'many2one'
many2one_count(sch, f_model, fc) ==
    IF f_model = "crm.lead" /\ fc = "tag_id" /\ sch.m2o_declared THEN 1 ELSE 0

\* a faulty variant of first_group_member: array_agg(id order by {order} desc)
last_group_member(tags, g, order) ==
    {i \in g : \A j \in g : order_value(j, tags[j], order) <= order_value(i, tags[i], order)}

\* (array_agg(id order by {order}))[1]: a member of the group that no member
\* precedes; rows with equal `order` values come in an order SQL does not fix
first_group_member(tags, g, order) ==
    {i \in g : \A j \in g : order_value(i, tags[i], order) <= order_value(j, tags[j], order)}

\* GROUP BY {uniq_column} HAVING count(id) > 1
dup_groups(tags, uniq_column) ==
    { g \in { {j \in DOMAIN tags : uniq_value(tags[j], uniq_column) = uniq_value(tags[i], uniq_column)} :
               i \in DOMAIN tags } : Cardinality(g) > 1 }

\* the results the CTE dups can have: one row (id, others) per group
dups(tags, uniq_column, order) ==
    LET groups == dup_groups(tags, uniq_column)
    IN  { {[id |-> f[g], others |-> g \ {f[g]}] : g \in groups} :
            f \in {h \in [groups -> DOMAIN tags] :
                      \A g \in groups : h[g] \in first_group_member(tags, g, order)} }

all_others(ds) == UNION {d.others : d \in ds}
survivor_of(ds, o) == (CHOOSE d \in ds : o \in d.others).id

\* one iteration of "for ft, fc, _, da in get_fk(cr, table)": the statement it
\* appends to upds, or the failed assertion
tag_statement(sch, edge) ==
    LET ft == edge[1]
        fc == edge[2]
        da == edge[4]
        cols == get_columns(ft, fc)[1]
        is_many2many == (da = "c" /\ Len(cols) = 1) \/ many2many_count(sch, ft) > 0
        f_model == model_of_table(ft)
        is_many2one == ~is_many2many /\ f_model # "" /\ many2one_count(sch, f_model, fc) > 0
    IN  IF ~(is_many2many \/ is_many2one) THEN [kind |-> "AssertionError", rel |-> ft]
        ELSE IF is_many2many
        THEN [kind |-> "insert", rel |-> ft, c1 |-> SubSeq(cols, 1, 1), c2 |-> fc]
        ELSE [kind |-> "update", rel |-> ft, c |-> fc]

\* INSERT INTO {rel}({c1}, {c2}) SELECT r.{c1}, d.id ... EXCEPT SELECT r.{c1}, r.{c2} ...
tag_insert(rel, ds) ==
    LET linked == {p \in DOMAIN rel : rel[p] > 0}
        moved == {<<p[1], survivor_of(ds, p[2])>> : p \in {q \in linked : q[2] \in all_others(ds)}}
        kept == {p \in linked : p[2] \in {d.id : d \in ds}}
    IN  [p \in DOMAIN rel |-> rel[p] + (IF p \in moved \ kept THEN 1 ELSE 0)]

\* UPDATE {rel} r SET {c} = d.id FROM dups d WHERE r.{c} = ANY(d.others)
tag_update(rows, ds) ==
    [i \in DOMAIN rows |->
        IF rows[i].tag_id \in all_others(ds)
        THEN [rows[i] EXCEPT !.tag_id = survivor_of(ds, @)]
        ELSE rows[i]]

\* UPDATE ir_model_data x SET res_id = d.id FROM dups d WHERE x.model = %s AND x.res_id = ANY(d.others)
tag_update_imd(rows, model, ds) ==
    { IF x.res_model = model /\ x.res_id \in all_others(ds)
      THEN [x EXCEPT !.res_id = survivor_of(ds, @)]
      ELSE x : x \in rows }

\* the rows of `rel` after DELETE FROM {table} WHERE id IN others: ON DELETE
\* CASCADE removes the pairs of the deleted tags
tag_cascade(rel, ds) == [p \in DOMAIN rel |-> IF p[2] \in all_others(ds) THEN 0 ELSE rel[p]]

\* the statements _upd_0, _upd_1, ...: each reads the rows as they were when
\* the query started and writes its own table
RECURSIVE tag_updates(_, _, _, _)
tag_updates(st, d, upds, ds) ==
    IF upds = << >> \/ st.err # NoError THEN st
    ELSE LET u == Head(upds)
         IN  tag_updates(
                 IF u.kind = "update" THEN [st EXCEPT !.db[u.rel] = tag_update(d[u.rel], ds)]
                 ELSE IF ~column_exists(u.rel, u.c1) THEN Raise(st, "UndefinedColumn", u.c1)
                 ELSE [st EXCEPT !.db[u.rel] = tag_cascade(tag_insert(d[u.rel], ds), ds)],
                 d, Tail(upds), ds)

\* a faulty variant of assert_upds: the assertion is not made
assert_upds_skipped(upds) == TRUE

\* assert upds
assert_upds(upds) == upds # << >>

\* uniq_tags(cr, model, uniq_column, order), the CTE dups having the result ds
uniq_tags(d, sch, a, ds) ==
    LET edges == get_fk(sch, table_of_model(a.model))
        upds == [k \in DOMAIN edges |-> tag_statement(sch, edges[k])]
        st == [db |-> d, err |-> NoError]
        ran == tag_updates(
                   [st EXCEPT !.db.ir_model_data = tag_update_imd(@, a.model, ds),
                              !.db.crm_tag = delete_ids(@, all_others(ds))],
                   d, upds, ds)
    IN  IF \E k \in DOMAIN upds : upds[k].kind = "AssertionError"
        THEN Raise(st, "AssertionError", "Can't determine")
        ELSE IF ~assert_upds(upds) THEN Raise(st, "AssertionError", "upds")
        ELSE IF ran.err # NoError THEN [st EXCEPT !.err = ran.err]
        ELSE ran

\* ---------------------------------------------------------------- uniq_tags: runs
TagSchemas ==
    { [rel |-> r[1], rel_declared |-> r[2], m2o |-> m[1], m2o_declared |-> m[2]] :
        r \in { <<"", FALSE>>, <<"crm_tag_rel", FALSE>>, <<"crm_tag_rel", TRUE>>,
                <<"x_tag_rel", FALSE>>, <<"x_tag_rel", TRUE>> },
        m \in { <<FALSE, FALSE>>, <<TRUE, FALSE>>, <<TRUE, TRUE>> } }

BaseTags == (1 :> [name |-> "A"]) @@ [i \in Ids \ {1} |-> [name |-> "a"]]
BaseTagRel == [p \in TagPairs |-> IF p \in {<<1, 1>>, <<1, 2>>, <<2, 2>>} THEN 1 ELSE 0]
BaseLeads == [i \in RowIds |-> [tag_id |-> i]]

\* the database of a schema: its join table and its many2one table, if any
TagDb(sch, tags, rel, leads) ==
    [ crm_tag |-> tags,
      ir_model_data |-> { XmlId("base", "tag_1", "crm.tag", 1), XmlId("base", "tag_2", "crm.tag", 2),
                          XmlId("base", "lead_2", "crm.lead", 2) },
      ir_attachment |-> { [res_model |-> "crm.tag", res_id |-> 2] },
      ir_property |-> (1 :> [value_reference |-> "crm.tag,2"]) ]
    @@ (IF sch.rel # "" THEN sch.rel :> rel ELSE << >>)
    @@ (IF sch.m2o THEN "crm_lead" :> leads ELSE << >>)

\* the schemas whose only table that refers to the tags is a join table
JoinOnlySchemas ==
    {t \in TagSchemas : t.rel # "" /\ (t.rel = "x_tag_rel" <=> ~t.rel_declared) /\ ~t.m2o}

\* the schemas in which no foreign key references the tags
NoEdgeSchemas == {t \in TagSchemas : t.rel = "" /\ ~t.m2o}

\* any names of the tags, any rows of the join table, any tags of the leads
TagDatabases ==
    { [db |-> TagDb(sch, tags, BaseTagRel, BaseLeads), schema |-> sch] :
        sch \in JoinOnlySchemas \cup NoEdgeSchemas, tags \in [Ids -> [name : TagNames]] }
    \cup
    { [db |-> TagDb(sch, BaseTags, rel, BaseLeads), schema |-> sch] :
        sch \in JoinOnlySchemas, rel \in [TagPairs -> {0, 1}] }
    \cup
    { [db |-> TagDb(sch, BaseTags, BaseTagRel, leads), schema |-> sch] :
        sch \in TagSchemas,
        leads \in [RowIds -> [tag_id : Ids \cup {NoId}]] }

InitTags ==
    /\ \E i \in TagDatabases : db = i.db /\ schema = i.schema
    /\ db0 = db
    /\ args = NoCall
    /\ pc = "idle"
    /\ err = NoError
    /\ scratch = FALSE
    /\ fk_writes = [i \in RowIds |-> 0]
    /\ report = {}
    /\ queue = {}
    /\ stack = << >>
    /\ done_refs = {}
    /\ visits = 0

TagCalls ==
    { [op |-> "uniq_tags", model |-> "crm.tag", uniq_column |-> c[1], order |-> c[2]] :
        c \in { <<"name", "id">>, <<"lower(name)", "id">>, <<"lower(name)", "name">>,
                <<"name", "name">> } }

\* a migration script calls uniq_tags(cr, model, uniq_column, order)
UniqTags(a) ==
    /\ pc = "idle"
    /\ \E ds \in dups(db.crm_tag, a.uniq_column, a.order) :
           \E st \in {uniq_tags(db, schema, a, ds)} :
               /\ db0' = db
               /\ args' = a
               /\ db' = st.db
               /\ err' = st.err
               /\ pc' = IF st.err = NoError THEN "done" ELSE "raised"
               /\ UNCHANGED <<schema, scratch, fk_writes, report, queue, stack, done_refs, visits>>

NextTags == \E a \in TagCalls : UniqTags(a)

SpecTags == InitTags /\ [][NextTags]_vars

\* the models whose tables hold rows by id, and their rows in database d
RowModels ==
    {"ir.ui.menu", "ir.ui.view", "product.template", "product.product", "product.pack",
     "ir.property"}

RowsOf(d) == {r \in RowModels \X Ids : r[2] \in DOMAIN d[table_of_model(r[1])]}

\* row r of d refers to the record t = (model, id): by a delegation column, a
\* reference-encoded column, parent_id of a menu or inherit_id of a view
RefersTo(d, r, t) ==
    LET row == d[table_of_model(r[1])][r[2]]
    IN  CASE r[1] = "product.product" -> t = <<"product.template", row.product_tmpl_id>>
          [] r[1] = "product.pack" -> t = <<"product.product", row.product_id>>
          [] r[1] = "ir.property" -> row.value_reference = concat_ref(t[1], t[2])
          [] r[1] = "ir.ui.menu" ->
                 t = <<"ir.ui.menu", row.parent_id>> \/ row.action = concat_ref(t[1], t[2])
          [] r[1] = "ir.ui.view" -> t = <<"ir.ui.view", row.inherit_id>>
          [] OTHER -> FALSE

\* the records of S and the rows that refer to them, directly or not
RECURSIVE Dependents(_, _)
Dependents(d, S) ==
    LET more == {r \in RowsOf(d) : \E t \in S : RefersTo(d, r, t)} \ S
    IN  IF more = {} THEN S ELSE Dependents(d, S \cup more)

Removed == {<<args.model, i>> : i \in args.ids}

\* C13: after remove_records(model, ids) returns for non-empty ids, the model's
\* table holds no row with an id of ids and no bound polymorphic site holds a
\* row matching (model, id); the rows that are neither in ids nor dependents of
\* the removed rows (rows that refer to them, directly or not) remain as they were.
C13_RowsAndSiteRowsRemoved ==
    (ReturnedOp("remove_records") /\ args.ids # {}) =>
        /\ DOMAIN db[table_of_model(args.model)] \cap args.ids = {}
        /\ \A k \in DOMAIN indirect_references :
               \A x \in db[indirect_references[k].table] :
                   ~(x.res_model = args.model /\ x.res_id \in args.ids)
        /\ \A r \in RowsOf(db0) \ Dependents(db0, Removed) :
               /\ r \in RowsOf(db)
               /\ db[table_of_model(r[1])][r[2]] = db0[table_of_model(r[1])][r[2]]

\* a returned remove_records that deleted a row of ids and a row of a
\* polymorphic site that matched it, and kept a row of the model
C13_Witness ==
    /\ ReturnedOp("remove_records") /\ args.model = "product.template"
    /\ \E i \in args.ids : i \in DOMAIN db0.product_template
    /\ \E x \in db0.ir_attachment \ db.ir_attachment : x.res_id \in args.ids
    /\ \E x \in db0.ir_model_data \ db.ir_model_data : x.res_id \in args.ids
    /\ DOMAIN db.product_template # {}

\* C14: the removal is transitively complete over delegation columns: after
\* remove_records returns, no product delegates to a template that was removed
\* and no pack delegates to a product that was removed, at any depth.
C14_NoOrphanedDelegation ==
    ReturnedOp("remove_records") =>
        /\ \A p \in DOMAIN db.product_product :
               db.product_product[p].product_tmpl_id \in DOMAIN db0.product_template
                   => db.product_product[p].product_tmpl_id \in DOMAIN db.product_template
        /\ \A k \in DOMAIN db.product_pack :
               db.product_pack[k].product_id \in DOMAIN db0.product_product
                   => db.product_pack[k].product_id \in DOMAIN db.product_product

\* a returned remove_records of templates that deleted a pack whose product
\* delegated to a removed template, and kept another product and another pack
C14_Witness ==
    /\ ReturnedOp("remove_records") /\ args.model = "product.template"
    /\ \E k \in DOMAIN db0.product_pack \ DOMAIN db.product_pack :
           db0.product_product[db0.product_pack[k].product_id].product_tmpl_id \in args.ids
    /\ DOMAIN db.product_product # {}
    /\ DOMAIN db.product_pack # {}

\* C15: after remove_records(model, ids), no row of a writable reference-encoded
\* column holds "model,id" for an id of ids, the table ir_values (when there is
\* one) holds no entry with such a value, and the reference column that cannot
\* be written (ir_translation.name) is skipped without error: the call returns.
C15_NoReferenceLeft ==
    (CalledOp("remove_records") /\ args.ids # {}) =>
        LET needle == {concat_ref(args.model, i) : i \in args.ids}
        IN  /\ pc = "done"
            /\ \A i \in DOMAIN db.ir_property : db.ir_property[i].value_reference \notin needle
            /\ \A i \in DOMAIN db.ir_ui_menu : db.ir_ui_menu[i].action \notin needle
            /\ table_exists(db, "ir_values") => \A v \in db.ir_values : v.value \notin needle

\* a returned remove_records after which a property and a menu that referred to
\* a removed record, and the ir_values entry of a removed record, are gone
C15_Witness ==
    /\ ReturnedOp("remove_records")
    /\ \E i \in DOMAIN db0.ir_property \ DOMAIN db.ir_property :
           \E j \in args.ids : db0.ir_property[i].value_reference = concat_ref(args.model, j)
    /\ \E i \in DOMAIN db0.ir_ui_menu \ DOMAIN db.ir_ui_menu :
           \E j \in args.ids : db0.ir_ui_menu[i].action = concat_ref(args.model, j)
    /\ table_exists(db, "ir_values") /\ db.ir_values # db0.ir_values

\* the rows a removal can reach: delegating rows and rows of reference columns
ReachableRows(d) ==
    Cardinality(DOMAIN d.product_product) + Cardinality(DOMAIN d.product_pack)
        + Cardinality(DOMAIN d.ir_property)

\* property i refers to property j in database d
PropertyRefers(d, i, j) ==
    /\ i \in DOMAIN d.ir_property
    /\ d.ir_property[i].value_reference = concat_ref("ir.property", j)

\* C28: remove_records terminates on every database, also when reference-encoded
\* columns form a cycle between records (A refers to B, B to A) or a record
\* refers to itself: the recursion through _rm_refs, remove_record and
\* remove_records never exhausts the interpreter's frames and enters
\* remove_records a bounded number of times (once for the call, at most once
\* more per row that delegates or refers to a removed record), because a
\* record's row is deleted before its referrers are searched.
C28_TerminatesOnCycles ==
    (CalledOp("remove_records") \/ CalledOp("remove_record")) =>
        /\ pc = "done"
        /\ err.type # "RecursionError"
        /\ visits <= 1 + ReachableRows(db0)
        /\ CalledOp("remove_records") =>
               \A i \in args.ids : i \notin DOMAIN db[table_of_model(args.model)]

\* a returned remove_records of a property A where A referred to B and B to A:
\* both are gone, B by the recursion
C28_Witness ==
    /\ ReturnedOp("remove_records") /\ args.model = "ir.property"
    /\ \E a \in args.ids, b \in RowIds \ args.ids :
           /\ a # b /\ PropertyRefers(db0, a, b) /\ PropertyRefers(db0, b, a)
           /\ a \notin DOMAIN db.ir_property /\ b \notin DOMAIN db.ir_property
    /\ visits = 2

\* a returned remove_records of a property that referred to itself
C28_WitnessSelfReference ==
    /\ ReturnedOp("remove_records") /\ args.model = "ir.property"
    /\ \E a \in args.ids : PropertyRefers(db0, a, a) /\ a \notin DOMAIN db.ir_property
    /\ visits = 1

\* the view a remove_view call is about, NoId when its xml_id is unknown
TargetView == IF args.xml_id # "" THEN ref(db0, args.xml_id) ELSE args.view_id

\* v inherits from view `root` through at most n inherit_id steps
RECURSIVE InheritsFrom(_, _, _, _)
InheritsFrom(views, root, v, n) ==
    /\ v \in DOMAIN views
    /\ n > 0
    /\ \/ views[v].inherit_id = root
       \/ InheritsFrom(views, root, views[v].inherit_id, n - 1)

\* a view without a module-owned external identifier
CustomView(d, v) ==
    ~\E x \in d.ir_model_data : x.res_model = "ir.ui.view" /\ x.res_id = v /\ module_owned(x)

CustomViewsBelow(d, root) ==
    {v \in DOMAIN d.ir_ui_view : InheritsFrom(d.ir_ui_view, root, v, 3) /\ CustomView(d, v)}

\* C17: remove_view deletes the view and its inheriting views only as long as
\* they belong to a module: when a custom view (an inheriting view with no
\* module-owned external identifier) exists anywhere in the hierarchy below the
\* view, remove_view raises instead of completing the removal.
C17_CustomViewCrashes ==
    (CalledOp("remove_view") /\ TargetView \in DOMAIN db0.ir_ui_view
        /\ CustomViewsBelow(db0, TargetView) # {}) => pc = "raised"

\* ---------------------------------------------------------------- uniq_tags: properties
\* the rows of the tag table that shared the uniq_column value of row i when
\* the call started
GroupOf(i) ==
    {j \in DOMAIN db0.crm_tag :
        uniq_value(db0.crm_tag[j], args.uniq_column) = uniq_value(db0.crm_tag[i], args.uniq_column)}

OrderOf(i) == order_value(i, db0.crm_tag[i], args.order)

\* the rows the call deleted
Others == DOMAIN db0.crm_tag \ DOMAIN db.crm_tag

\* C18: after uniq_tags(model, uniq_column, order) returns on an entity with at
\* least one referring edge, of every group of rows that shared a uniq_column
\* value exactly one row remains, no row of the group had a smaller `order`
\* value, the other rows of the group are deleted, and a row that shared its
\* value with no other row is untouched.
C18_OneSurvivorPerGroup ==
    ReturnedOp("uniq_tags") =>
        \A i \in DOMAIN db0.crm_tag :
            LET left == GroupOf(i) \cap DOMAIN db.crm_tag
            IN  /\ Cardinality(left) = 1
                /\ \A s \in left : /\ \A j \in GroupOf(i) : OrderOf(s) <= OrderOf(j)
                                   /\ db.crm_tag[s] = db0.crm_tag[s]

\* a returned uniq_tags over tags referenced by a declared many2one only: a
\* group of two tags lost its second row, another tag shared its value with none
C18_Witness ==
    /\ ReturnedOp("uniq_tags") /\ schema.rel = "" /\ schema.m2o_declared
    /\ \E i \in DOMAIN db0.crm_tag : Cardinality(GroupOf(i)) = 2 /\ i \in Others
    /\ \E i \in DOMAIN db.crm_tag : GroupOf(i) = {i}

\* C19: collapse preserves referential totality: after uniq_tags returns, every
\* row that referenced a deleted duplicate references the survivor of its
\* group, and no id of a deleted duplicate remains anywhere: not in a direct FK
\* column, a join table, ir_model_data, a polymorphic (model, id) site or a
\* reference-encoded column.
C19_NoDuplicateIdAnywhere ==
    ReturnedOp("uniq_tags") =>
        /\ table_exists(db, "crm_lead") =>
               \A i \in DOMAIN db.crm_lead :
                   /\ db.crm_lead[i].tag_id \notin Others
                   /\ db0.crm_lead[i].tag_id \in Others =>
                          db.crm_lead[i].tag_id \in GroupOf(db0.crm_lead[i].tag_id)
        /\ schema.rel # "" => \A p \in TagPairs : db[schema.rel][p] > 0 => p[2] \notin Others
        /\ \A x \in db.ir_model_data \cup db.ir_attachment :
               ~(x.res_model = "crm.tag" /\ x.res_id \in Others)
        /\ \A i \in DOMAIN db.ir_property :
               \A o \in Others : db.ir_property[i].value_reference # concat_ref("crm.tag", o)

\* the tags that are duplicates whichever row of their group comes first
Duplicates ==
    {o \in DOMAIN db0.crm_tag :
        o \notin first_group_member(db0.crm_tag, GroupOf(o), args.order)}

\* C20: for a many-to-many edge of the collapsed entity, each join-table row
\* (x, o) that pointed at a duplicate o has a row (x, s) on the survivor s of
\* o's group after uniq_tags, and the join table holds no duplicate pair; also
\* when x was linked to several duplicates and when x was linked to s already.
C20_JoinRowsMovedToSurvivor ==
    (CalledOp("uniq_tags") /\ schema.rel # "" /\ (schema.m2o => schema.m2o_declared)) =>
        /\ \A p \in TagPairs :
               (db0[schema.rel][p] > 0 /\ p[2] \in Duplicates) =>
                   \E s \in GroupOf(p[2]) \cap DOMAIN db.crm_tag :
                       /\ s \in first_group_member(db0.crm_tag, GroupOf(p[2]), args.order)
                       /\ db[schema.rel][<<p[1], s>>] > 0
        /\ \A p \in TagPairs : db[schema.rel][p] <= 1

\* C21: uniq_tags on an entity that no foreign key references fails with an
\* AssertionError, whether or not the table holds duplicates, and modifies no
\* row of any table.
C21_NoEdgeAssertion ==
    (CalledOp("uniq_tags") /\ get_fk(schema, table_of_model(args.model)) = << >>) =>
        /\ pc = "raised"
        /\ err.type = "AssertionError"
        /\ db = db0

\* a raised uniq_tags on tags that no foreign key references and that hold a
\* group of duplicates
C21_Witness ==
    /\ CalledOp("uniq_tags") /\ pc = "raised"
    /\ get_fk(schema, table_of_model(args.model)) = << >>
    /\ dup_groups(db0.crm_tag, args.uniq_column) # {}

\* the same on tags without duplicates
C21_WitnessNoDuplicates ==
    /\ CalledOp("uniq_tags") /\ pc = "raised"
    /\ get_fk(schema, table_of_model(args.model)) = << >>
    /\ dup_groups(db0.crm_tag, args.uniq_column) = {}

\* ---------------------------------------------------------------- removal: groups
\* standard_tables = ["ir_model_access", "rule_group_rel"]
standard_tables == {"ir_model_access", "rule_group_rel"}

\* SELECT COUNT(*) FROM "{foreign_table}" WHERE "{foreign_column}" = group_id
count_rows(d, table, column, group_id) ==
    IF has_id_column(table)
    THEN Cardinality({i \in DOMAIN d[table] : d[table][i][column] = group_id})
    ELSE Cardinality({x \in d[table] : x[column] = group_id})

\* parallel_execute(cr, explode_query_range(cr, query, table=foreign_table)): the
\* DELETE, one statement per id range
RECURSIVE delete_exploded(_, _, _, _)
delete_exploded(rows, column, group_id, ranges) ==
    IF ranges = << >> THEN rows
    ELSE delete_exploded(
             delete_ids(rows, {i \in DOMAIN rows : InRange(i, Head(ranges))
                                                     /\ rows[i][column] = group_id}),
             column, group_id, Tail(ranges))

\* a faulty variant of delete_restricting_rows: the rows are left in place
keep_restricting_rows(d, table, column, group_id) == d

\* DELETE FROM "{foreign_table}" WHERE "{foreign_column}" = group_id
delete_restricting_rows(d, table, column, group_id) ==
    IF has_id_column(table)
    THEN [d EXCEPT ![table] = delete_exploded(@, column, group_id, explode_query_range(DOMAIN @))]
    ELSE [d EXCEPT ![table] = {x \in @ : x[column] # group_id}]

\* one iteration of "for foreign_table, foreign_column, _, on_delete_action in fks"
group_fk_iteration(acc, edge, group_id) ==
    LET foreign_table == edge[1]
        foreign_column == edge[2]
        count == count_rows(acc.db, foreign_table, foreign_column, group_id)
    IN  IF edge[4] # "r" THEN acc
        ELSE IF foreign_table \notin standard_tables
        THEN IF count > 0
             THEN [acc EXCEPT !.custom_tables = Append(@, <<foreign_table, foreign_column, count>>)]
             ELSE acc
        ELSE [acc EXCEPT !.db = delete_restricting_rows(@, foreign_table, foreign_column, group_id)]

\* a faulty variant of group_fk_loop: the loop ends at the first custom table found
RECURSIVE group_fk_loop_until_custom(_, _, _)
group_fk_loop_until_custom(acc, fks, group_id) ==
    IF fks = << >> \/ acc.custom_tables # << >> THEN acc
    ELSE group_fk_loop_until_custom(group_fk_iteration(acc, Head(fks), group_id), Tail(fks), group_id)

RECURSIVE group_fk_loop(_, _, _)
group_fk_loop(acc, fks, group_id) ==
    IF fks = << >> THEN acc
    ELSE group_fk_loop(group_fk_iteration(acc, Head(fks), group_id), Tail(fks), group_id)

\* "\n".join(" - {} ({}) - {} record(s)".format(table, column, count) for ...)
RECURSIVE custom_tables_lines(_)
custom_tables_lines(custom_tables) ==
    IF custom_tables = << >> THEN ""
    ELSE " - " \o Head(custom_tables)[1] \o " (" \o Head(custom_tables)[2] \o ") - "
         \o ToString(Head(custom_tables)[3]) \o " record(s)"
         \o (IF Len(custom_tables) > 1 THEN "\n" ELSE "")
         \o custom_tables_lines(Tail(custom_tables))

\* what the database does with the rows that reference a deleted group: a
\* restrict foreign key with a referencing row rejects the DELETE, a cascade
\* one deletes its rows
group_delete_rejected(d, fks, group_id) ==
    \E k \in DOMAIN fks : fks[k][4] = "r" /\ count_rows(d, fks[k][1], fks[k][2], group_id) > 0

RECURSIVE group_delete_cascade(_, _, _)
group_delete_cascade(d, fks, group_id) ==
    IF fks = << >> THEN d
    ELSE group_delete_cascade(
             IF Head(fks)[4] = "c"
             THEN delete_restricting_rows(d, Head(fks)[1], Head(fks)[2], group_id)
             ELSE d,
             Tail(fks), group_id)

\* remove_group(cr, xml_id=None, group_id=None)
remove_group(st, sch, xml_id, given_id) ==
    LET group_id == IF xml_id # "" THEN ref(st.db, xml_id) ELSE given_id
        model == (CHOOSE x \in st.db.ir_model_data : xmlid_of(x) = xml_id).res_model
        fks == get_fk(sch, "res_groups")
        looped == group_fk_loop([db |-> st.db, custom_tables |-> << >>], fks, group_id)
        st1 == [st EXCEPT !.db = looped.db]
        removed == remove_records(st1, "res.groups", {group_id})
    IN  IF (xml_id # "") = (given_id # NoId) THEN Raise(st, "AssertionError", "xml_id ^ group_id")
        ELSE IF xml_id # "" /\ group_id # NoId /\ model # "res.groups"
        THEN Raise(st, "ValueError", xml_id)
        ELSE IF group_id = NoId THEN st
        ELSE IF looped.custom_tables # << >>
        THEN Raise(st1, "MigrationError", custom_tables_lines(looped.custom_tables))
        ELSE IF group_delete_rejected(st1.db, fks, group_id)
        THEN Raise(st1, "ForeignKeyViolation", "res_groups")
        ELSE IF removed.err # NoError THEN removed
        ELSE [removed EXCEPT !.db = group_delete_cascade(@, fks, group_id)]

\* ---------------------------------------------------------------- removal: groups, runs
\* the tables of a group removal, beside those of BaseRm:
\*   res_groups            id -> [name]
\*   ir_model_access       id -> [group_id], restrict, a standard table
\*   rule_group_rel        rows [rule_group_id, group_id], restrict, a standard table
\*   x_audit, x_badge      id -> [group_id], tables of custom modules
\*   res_groups_users_rel  rows [uid, gid], cascade
GroupIds == {1, 2}

GroupEdges ==
    { <<"ir_model_access", "group_id", "a", "r">>, <<"rule_group_rel", "group_id", "a", "r">>,
      <<"x_audit", "group_id", "a", "r">> }

\* the orders in which get_fk can list the foreign keys to res_groups: x_badge
\* references the groups with a restrict or with a cascade foreign key
GroupFkOrders ==
    UNION { { f \in [1 .. 4 -> GroupEdges \cup {<<"x_badge", "group_id", "a", od>>}] :
                \A i, j \in 1 .. 4 : i # j => f[i] # f[j] } : od \in {"r", "c"} }

GroupSchemas ==
    { [group_fks |-> f \o << <<"res_groups_users_rel", "gid", "a", "c">> >>] : f \in GroupFkOrders }

\* no row, or one row on a group
CustomRows == { << >> } \cup { <<[group_id |-> g]>> : g \in GroupIds }

GroupDb(access, rules, audit, badge) ==
    [ res_groups |-> [i \in GroupIds |-> [name |-> "group " \o ToString(i)]],
      ir_model_access |-> access,
      rule_group_rel |-> rules,
      x_audit |-> audit,
      x_badge |-> badge,
      res_groups_users_rel |-> { [uid |-> 1, gid |-> 1], [uid |-> 1, gid |-> 2] },
      ir_ui_view |->
          (1 :> [inherit_id |-> NoId, mode |-> "primary", active |-> TRUE, name |-> "v1", key |-> "",
                 arch |-> "<form>groups</form>"]),
      ir_attachment |-> { [res_model |-> "res.groups", res_id |-> 1] },
      ir_model_data |-> { XmlId("base", "group_1", "res.groups", 1),
                          XmlId("base", "group_2", "res.groups", 2),
                          XmlId("base", "menu_1", "ir.ui.menu", 1),
                          XmlId("base", "user_groups_view", "ir.ui.view", 1) } ]
    @@ BaseRm

GroupDatabases ==
    { GroupDb(access, rules, audit, badge) :
        access \in [1 .. 2 -> [group_id : GroupIds]],
        rules \in SUBSET [rule_group_id : {1}, group_id : GroupIds],
        audit \in CustomRows,
        badge \in CustomRows }

InitGroups ==
    /\ db \in GroupDatabases
    /\ schema \in GroupSchemas
    /\ db0 = db
    /\ args = NoCall
    /\ pc = "idle"
    /\ err = NoError
    /\ scratch = FALSE
    /\ fk_writes = [i \in RowIds |-> 0]
    /\ report = {}
    /\ queue = {}
    /\ stack = << >>
    /\ done_refs = {}
    /\ visits = 0

GroupCalls ==
    { [op |-> "remove_group", xml_id |-> c[1], group_id |-> c[2]] :
        c \in { <<"base.group_1", NoId>>, <<"base.menu_1", NoId>>, <<"base.nope", NoId>>,
                <<"", 1>>, <<"", 2>>, <<"", NoId>>, <<"base.group_2", 2>> } }

\* a migration script calls remove_group(cr, xml_id) or remove_group(cr, group_id=...)
RemoveGroup(a) ==
    /\ pc = "idle"
    /\ \E st \in {remove_group(Starting, schema, a.xml_id, a.group_id)} : Ended(a, st)

NextGroups == \E a \in GroupCalls : RemoveGroup(a)

SpecGroups == InitGroups /\ [][NextGroups]_vars

\* ---------------------------------------------------------------- removal: groups, properties
\* the group a remove_group call is about, and whether the call names a group
GroupTarget == IF args.xml_id # "" THEN ref(db0, args.xml_id) ELSE args.group_id

NamesGroup ==
    /\ CalledOp("remove_group")
    /\ (args.xml_id # "") # (args.group_id # NoId)
    /\ GroupTarget \in DOMAIN db0.res_groups
    /\ args.xml_id # "" =>
           \A x \in db0.ir_model_data : xmlid_of(x) = args.xml_id => x.res_model = "res.groups"

\* a restrict foreign key of a table that is not standard, with a row on the group
RestrictsGroup(e) ==
    /\ e[4] = "r"
    /\ e[1] \notin {"ir_model_access", "rule_group_rel"}
    /\ count_rows(db0, e[1], e[2], GroupTarget) > 0

RestrictingEdges == SelectSeq(get_fk(schema, "res_groups"), RestrictsGroup)

\* the rows of db0 that do not reference the group
OtherAccessRows ==
    [i \in {j \in DOMAIN db0.ir_model_access : db0.ir_model_access[j].group_id # GroupTarget} |->
        db0.ir_model_access[i]]
OtherRuleRows == {x \in db0.rule_group_rel : x.group_id # GroupTarget}

\* C24: remove_group deletes the rows of ir_model_access and rule_group_rel that
\* reference the group through a restrict foreign key and then removes the
\* group; if another table references the group through a restrict foreign key
\* with at least one row, it raises MigrationError naming each such table, its
\* column and its number of rows, and the group row is not removed.
C24_RestrictHonored ==
    NamesGroup =>
        IF RestrictingEdges = << >>
        THEN /\ pc = "done"
             /\ GroupTarget \notin DOMAIN db.res_groups
             /\ db.ir_model_access = OtherAccessRows
             /\ db.rule_group_rel = OtherRuleRows
        ELSE /\ pc = "raised"
             /\ err.type = "MigrationError"
             /\ err.at = custom_tables_lines(
                    [k \in DOMAIN RestrictingEdges |->
                        <<RestrictingEdges[k][1], RestrictingEdges[k][2],
                          count_rows(db0, RestrictingEdges[k][1], RestrictingEdges[k][2], GroupTarget)>>])
             /\ GroupTarget \in DOMAIN db.res_groups

\* a returned remove_group of a group that rows of both standard tables
\* referenced, while rows of the other group stay
C24_Witness ==
    /\ NamesGroup /\ pc = "done"
    /\ count_rows(db0, "ir_model_access", "group_id", GroupTarget) > 0
    /\ count_rows(db0, "rule_group_rel", "group_id", GroupTarget) > 0
    /\ DOMAIN db.ir_model_access # {}
    /\ GroupTarget \notin DOMAIN db.res_groups

\* C29 as stated: when remove_group raises MigrationError it has deleted
\* nothing: the rows of ir_model_access and rule_group_rel that reference the
\* group are still present, whatever the order of the foreign keys.
C29_NothingDeletedOnError ==
    (CalledOp("remove_group") /\ err.type = "MigrationError") =>
        /\ db.ir_model_access = db0.ir_model_access
        /\ db.rule_group_rel = db0.rule_group_rel

\* C29, amended: when remove_group raises MigrationError, the group row, the
\* rows of the custom tables and of the cascade tables are untouched, and the
\* rows of ir_model_access and rule_group_rel that referenced the group are
\* already deleted, whatever the order of the foreign keys.
C29_StandardRowsDeletedOnError ==
    (CalledOp("remove_group") /\ err.type = "MigrationError") =>
        /\ db.ir_model_access = OtherAccessRows
        /\ db.rule_group_rel = OtherRuleRows
        /\ \A t \in DOMAIN db0 \ {"ir_model_access", "rule_group_rel"} : db[t] = db0[t]

\* a remove_group that raised MigrationError: get_fk listed a custom table with
\* a row on the group first, and both standard tables had rows on the group
C29_Witness ==
    /\ NamesGroup /\ err.type = "MigrationError"
    /\ RestrictsGroup(get_fk(schema, "res_groups")[1])
    /\ count_rows(db0, "ir_model_access", "group_id", GroupTarget) > 0
    /\ count_rows(db0, "rule_group_rel", "group_id", GroupTarget) > 0
    /\ db.ir_model_access # db0.ir_model_access

\* the edges of the collapsed entity and what an iteration of the loop makes of one
TagEdges == get_fk(schema, table_of_model(args.model))
ClassifiedAs(edge) == tag_statement(schema, edge).kind

\* C23: uniq_tags classifies an edge many-to-many iff its foreign key is
\* on-delete-cascade and its table has exactly one other column, or the table
\* is a declared many2many relation table; many-to-one only if the catalog
\* declares the column a many2one field; if neither holds for an edge the call
\* raises an AssertionError before any row is modified.
C23_ClassifiedByShapeOrDeclaration ==
    CalledOp("uniq_tags") =>
        /\ \A k \in DOMAIN TagEdges :
               LET e == TagEdges[k]
               IN  /\ ClassifiedAs(e) = "insert" <=>
                          \/ e[4] = "c" /\ Len(get_columns(e[1], e[2])) = 1
                          \/ many2many_count(schema, e[1]) > 0
                   /\ ClassifiedAs(e) = "update" =>
                          many2one_count(schema, model_of_table(e[1]), e[2]) > 0
        /\ (\E k \in DOMAIN TagEdges : ClassifiedAs(TagEdges[k]) = "AssertionError") =>
               (pc = "raised" /\ err.type = "AssertionError" /\ db = db0)

\* ---------------------------------------------------------------- batch executor: runs
\* the direct-FK UPDATE of the rewrite, exploded over the referring table and
\* run by the workers one statement at a time, in any order
\*   db.sale_order   id -> partner_id, over any set of ids of BatchIds
BatchIds == 1 .. 4
BatchWorkers == 1 .. 3

\* a mapping of one id, a swap of two ids, a chain
BatchMappings == { (1 :> 2), (1 :> 2) @@ (2 :> 1), (1 :> 2) @@ (2 :> 3) }

BatchDatabases == { [sale_order |-> t] : t \in UNION {[D -> Ids] : D \in SUBSET BatchIds} }

BatchCalls ==
    { [op |-> "run_partitioned", table |-> "sale_order", id_mapping |-> m, worker_count |-> n] :
        m \in BatchMappings, n \in BatchWorkers }

\* the id ranges of the statements a call is exploded into
ranges_of(ids, worker_count) ==
    IF ids = {} THEN << <<1, 0>> >> ELSE id_ranges(SetMin(ids), SetMax(ids), worker_count)

InitBatch ==
    /\ db \in BatchDatabases
    /\ schema = BaseSchema
    /\ db0 = db
    /\ args = NoCall
    /\ pc = "idle"
    /\ err = NoError
    /\ scratch = FALSE
    /\ fk_writes = [i \in RowIds |-> 0]
    /\ report = {}
    /\ queue = {}
    /\ stack = << >>
    /\ done_refs = {}
    /\ visits = 0

\* parallel_execute(cr, explode_query_range(cr, fmt_query, table=table, alias="t")):
\* the statements are submitted to the workers
run_partitioned(a) ==
    /\ pc = "idle"
    /\ LET ranges == ranges_of(DOMAIN db[a.table], a.worker_count)
       IN  queue' = {[n |-> k, range |-> ranges[k]] : k \in DOMAIN ranges}
    /\ db0' = db
    /\ args' = a
    /\ pc' = "running"
    /\ UNCHANGED <<db, schema, err, scratch, fk_writes, report, stack, done_refs, visits>>

\* a worker runs one of the submitted statements
RunStatement(q) ==
    /\ pc = "running"
    /\ q \in queue
    /\ db' = [db EXCEPT ![args.table] = run_range("fk", args, @, q.range)]
    /\ queue' = queue \ {q}
    /\ UNCHANGED <<schema, db0, args, pc, err, scratch, fk_writes, report, stack, done_refs, visits>>

\* every statement has run: parallel_execute returns
Join ==
    /\ pc = "running"
    /\ queue = {}
    /\ stack = << >>
    /\ done_refs = {}
    /\ pc' = "done"
    /\ UNCHANGED <<db, schema, db0, args, err, scratch, fk_writes, report, queue, stack, done_refs, visits>>

NextBatch ==
    \/ \E a \in BatchCalls : run_partitioned(a)
    \/ \E q \in queue : RunStatement(q)
    \/ Join

SpecBatch == InitBatch /\ [][NextBatch]_vars

\* ---------------------------------------------------------------- batch executor: properties
\* the ranges of the last call and the ids of the table it ran on
BatchRanges == ranges_of(DOMAIN db0.sale_order, args.worker_count)
BatchTableIds == DOMAIN db0.sale_order

\* C22: for a table with ids min..max and a worker count n, the id ranges of
\* the exploded statements are contiguous and pairwise disjoint and their
\* union is exactly [min, max]; once all statements have run, in whatever
\* order, the rows are those the unpartitioned UPDATE would have left.
C22_PartitionedEqualsUnpartitioned ==
    (CalledOp("run_partitioned") /\ BatchTableIds # {}) =>
        /\ BatchRanges[1][1] = SetMin(BatchTableIds)
        /\ BatchRanges[Len(BatchRanges)][2] = SetMax(BatchTableIds)
        /\ \A k \in 1 .. Len(BatchRanges) - 1 : BatchRanges[k + 1][1] = BatchRanges[k][2] + 1
        /\ \A i \in SetMin(BatchTableIds) .. SetMax(BatchTableIds) :
               Cardinality({k \in DOMAIN BatchRanges : InRange(i, BatchRanges[k])}) = 1
        /\ pc = "done" =>
               db.sale_order = [i \in BatchTableIds |-> stmt_new_row("fk", args, db0.sale_order[i])]

\* a call with three workers over ids 1..4 that has returned, two rows on
\* either side of a range boundary holding the two ids a swap exchanges
C22_Witness ==
    /\ ReturnedOp("run_partitioned") /\ args.worker_count = 3
    /\ Len(BatchRanges) = 3
    /\ args.id_mapping = (1 :> 2) @@ (2 :> 1)
    /\ \E i \in BatchTableIds : /\ i + 1 \in BatchTableIds
                                /\ ~InRange(i + 1, CHOOSE r \in {BatchRanges[k] : k \in 1 .. 3} : InRange(i, r))
                                /\ db0.sale_order[i] = 1 /\ db0.sale_order[i + 1] = 2
                                /\ db.sale_order[i] = 2 /\ db.sale_order[i + 1] = 1

\* ---------------------------------------------------------------- update_record_from_xml
\* the data files of module "base" declare three records; a record's fields
\* name other records by ref="..." or eval="ref('...')"
\*   db.files          xmlid -> the references of its node, as written in the file
\*   db.ir_model_data  xmlid -> [noupdate], for the identifiers that exist
\*   db.imported       xmlid -> number of times importer.parse loaded the record
XmlNames == {"base.a", "base.b", "base.c"}
WrittenRefs == {"base.a", "b", "base.c", "web.x"}

\* ref.split(".")[0], "" for a reference without a module
module_of_ref(xref) ==
    CASE xref = "b" -> "" [] xref = "web.x" -> "web" [] OTHER -> "base"

\* add_ref(ref), from_module being "base"
add_ref(extra_references, xref) ==
    IF module_of_ref(xref) = "" THEN Append(extra_references, "base." \o xref)
    ELSE IF module_of_ref(xref) = "base" THEN Append(extra_references, xref)
    ELSE extra_references

RECURSIVE add_refs(_, _)
add_refs(extra_references, refs) ==
    IF refs = << >> THEN extra_references
    ELSE add_refs(add_ref(extra_references, Head(refs)), Tail(refs))

\* a faulty variant of skip_reference: done_refs is not consulted
skip_reference_never(xref, done) == FALSE

\* if ref in done_refs: continue
skip_reference(xref, done) == xref \in done

\* __update_record_from_xml up to the loop over extra_references: the state
\* [db, stack, done_refs] as the call leaves it; a call that returns at once
\* leaves it as it was
enter_update(st, xmlid, force_create, ensure_references) ==
    LET exists == xmlid \in DOMAIN st.db.ir_model_data
        noupdate == exists /\ st.db.ir_model_data[xmlid].noupdate
        extra_references == IF ensure_references THEN add_refs(<< >>, st.db.files[xmlid]) ELSE << >>
    IN  IF ~exists /\ ~force_create THEN st
        ELSE [db |-> IF exists THEN [st.db EXCEPT !.ir_model_data[xmlid].noupdate = FALSE]
                     ELSE st.db,
              stack |-> << [xmlid |-> xmlid, refs |-> extra_references, noupdate |-> noupdate] >>
                        \o st.stack,
              done_refs |-> st.done_refs \cup {xmlid}]

\* importer.parse(new_root) and "if noupdate: force_noupdate(cr, xmlid, noupdate=True)"
import_record(d, frame) ==
    [d EXCEPT !.imported[frame.xmlid] = @ + 1,
              !.ir_model_data = (frame.xmlid :> [noupdate |-> frame.noupdate]) @@ @]

RefLists(n) == UNION {[1 .. k -> WrittenRefs] : k \in 0 .. n}

XmlFiles ==
    { ("base.a" :> a) @@ ("base.b" :> b) @@ ("base.c" :> c) :
        a \in RefLists(2), b \in RefLists(1), c \in RefLists(1) }

\* every identifier exists, only base.a exists, none exists
XmlData ==
    { [x \in XmlNames |-> [noupdate |-> TRUE]], ("base.a" :> [noupdate |-> FALSE]), << >> }

XmlDatabases ==
    { [files |-> f, ir_model_data |-> imd, imported |-> [x \in XmlNames |-> 0]] :
        f \in XmlFiles, imd \in XmlData }

XmlCalls ==
    { [op |-> "update_record_from_xml", xmlid |-> "base.a", force_create |-> fc,
       ensure_references |-> er] : fc \in BOOLEAN, er \in BOOLEAN }

InitXml ==
    /\ db \in XmlDatabases
    /\ schema = BaseSchema
    /\ db0 = db
    /\ args = NoCall
    /\ pc = "idle"
    /\ err = NoError
    /\ scratch = FALSE
    /\ fk_writes = [i \in RowIds |-> 0]
    /\ report = {}
    /\ queue = {}
    /\ stack = << >>
    /\ done_refs = {}
    /\ visits = 0

\* a migration script calls update_record_from_xml(cr, xmlid, ...): done_refs=set()
update_record_from_xml(a) ==
    /\ pc = "idle"
    /\ \E st \in {enter_update([db |-> db, stack |-> << >>, done_refs |-> {}],
                               a.xmlid, a.force_create, a.ensure_references)} :
           /\ db' = st.db
           /\ stack' = st.stack
           /\ done_refs' = st.done_refs
           /\ pc' = IF st.stack = << >> THEN "done" ELSE "running"
    /\ db0' = db
    /\ args' = a
    /\ UNCHANGED <<schema, err, scratch, fk_writes, report, queue, visits>>

\* one iteration of "for ref in extra_references" in the innermost call: the
\* reference is skipped, or __update_record_from_xml(cr, ref, force_create=True,
\* ensure_references=True, done_refs=done_refs) is entered
NextReference ==
    /\ pc = "running"
    /\ Head(stack).refs # << >>
    /\ Len(stack) <= Cardinality(XmlNames)
    /\ LET xref == Head(Head(stack).refs)
           rest == << [Head(stack) EXCEPT !.refs = Tail(@)] >> \o Tail(stack)
       IN  \E st \in { IF skip_reference(xref, done_refs)
                       THEN [db |-> db, stack |-> rest, done_refs |-> done_refs]
                       ELSE enter_update([db |-> db, stack |-> rest, done_refs |-> done_refs],
                                         xref, TRUE, TRUE) } :
               /\ db' = st.db
               /\ stack' = st.stack
               /\ done_refs' = st.done_refs
    /\ UNCHANGED <<schema, db0, args, pc, err, scratch, fk_writes, report, queue, visits>>

\* the loop of the innermost call is over: the record is imported and the call returns
ImportRecord ==
    /\ pc = "running"
    /\ Head(stack).refs = << >>
    /\ db' = import_record(db, Head(stack))
    /\ stack' = Tail(stack)
    /\ pc' = IF Tail(stack) = << >> THEN "done" ELSE "running"
    /\ UNCHANGED <<schema, db0, args, err, scratch, fk_writes, report, queue, done_refs, visits>>

XmlStep == NextReference \/ ImportRecord

NextXml ==
    \/ \E a \in XmlCalls : update_record_from_xml(a)
    \/ NextReference
    \/ ImportRecord

SpecXml == InitXml /\ [][NextXml]_vars

\* the interpreter goes on with the call it is in
SpecXmlLive == SpecXml /\ WF_vars(XmlStep)

\* ---------------------------------------------------------------- update_record_from_xml: properties
\* the references of x that add_ref keeps
ReferencesOf(x) == {r \in XmlNames : \E k \in DOMAIN db0.files[x] : add_ref(<< >>, db0.files[x][k]) = <<r>>}

\* C25: with ensure_references=True the recursion of update_record_from_xml
\* terminates for every reference graph, cyclic ones included, and no external
\* identifier is processed more than once in a top-level call: the calls that
\* have not returned are calls on different identifiers, and no record is
\* imported twice.
C25_TerminatesEachOnce ==
    /\ [](CalledOp("update_record_from_xml") =>
            /\ \A x \in XmlNames : db.imported[x] <= 1
            /\ \A i, j \in DOMAIN stack : i # j => stack[i].xmlid # stack[j].xmlid
            /\ Len(stack) <= Cardinality(XmlNames))
    /\ (pc = "running") ~> (pc = "done")

\* a returned call with ensure_references=True on base.a, which references
\* base.b twice, base.b referencing base.a: each was imported once
C25_Witness ==
    /\ ReturnedOp("update_record_from_xml") /\ args.ensure_references
    /\ add_refs(<< >>, db0.files["base.a"]) = <<"base.b", "base.b">>
    /\ "base.a" \in ReferencesOf("base.b")
    /\ db.imported["base.a"] = 1 /\ db.imported["base.b"] = 1

====
